---- MODULE Spec2Model ----
(***************************************************************************)
(* Model of the wire-layer framing core of deuter: the AsyncBufReader      *)
(* (src/buffer.rs), the FrameHeader codec and the frame dispatcher         *)
(* (src/frame/mod.rs).                                                     *)
(*                                                                         *)
(* Representation of usize.  The values the model handles are either small *)
(* (offsets, lengths) or within a small distance of usize::MAX.  A usize   *)
(* v is represented by the integer v when it is small and by v - 2^w when  *)
(* it is near the top of the range, so usize::MAX is -1.  UAdd and UMin    *)
(* compute on this representation exactly as the machine does modulo 2^w.  *)
(***************************************************************************)
EXTENDS Integers, Sequences, FiniteSets, TLC

Byte == 0..255

\* ------------------------------------------------------------------ bounds
\* Length of the byte stream the source hands out in the buffer specification.
MaxWire == 67
\* Largest destination slice passed to read().
MaxDst == 6
\* Sizes of the first two chunks the peer writes.
FirstChunk == 4
\* A small max_payload, as the tests use.
MaxPayloadSmall == 100
\* Most payload bytes an input of the codec specification carries.
MaxPayloadBytes == 12
SecondChunk == 3

\* --------------------------------------------------------------- constants
INITIAL_BUF_SIZE == 64
DEFAULT_BUF_SIZE == 8192
USIZE_MAX == -1
HEADER_SIZE == 9
FLAG_ACK == 1
FLAG_END_STREAM == 1
FLAG_END_HEADERS == 4
FLAG_PADDED == 8
FLAG_PRIORITY == 32
TYPE_HEADERS == 1
TYPE_PRIORITY == 2
TYPE_SETTINGS == 4
PRIORITY_PAYLOAD_LENGTH == 5
MIN_FRAME_SIZE == 16384
MAX_FRAME_SIZE == 16777215

VARIABLES
    rd,       \* the AsyncBufReader: [buf, pos, cap]
    src,      \* the underlying source: [avail, rest, chunk]
    max_payload, \* the max_payload the FrameReader around rd was built with
    aborted,  \* "none", or the panic that ended the program
    last      \* the last operation: its name, arguments and result

vars == <<rd, src, max_payload, aborted, last>>

\* ------------------------------------------------------------------ helpers
Min(a, b) == IF a <= b THEN a ELSE b

Zeros(n) == [i \in 1..n |-> 0]

\* seq[from..to) with 0-based offsets, as a Rust slice
Slice(seq, from, to) == SubSeq(seq, from + 1, to)

\* usize addition: [ovf |-> the addition overflows, val |-> the wrapped sum]
UAdd(a, b) ==
    IF a >= 0 /\ b >= 0 THEN [ovf |-> FALSE, val |-> a + b]
    ELSE IF a < 0 /\ b < 0 THEN [ovf |-> TRUE, val |-> a + b]
    ELSE [ovf |-> a + b >= 0, val |-> a + b]

\* a > b on usize
UGreater(a, b) ==
    IF (a < 0) = (b < 0) THEN a > b ELSE a < 0

\* cmp::min on usize
UMin(a, b) ==
    IF a < 0 /\ b < 0 THEN Min(a, b)
    ELSE IF a < 0 THEN b
    ELSE IF b < 0 THEN a
    ELSE Min(a, b)

\* ------------------------------------------------------------ the source
\* A non-blocking byte source.  avail are the bytes a read can return now,
\* rest the bytes that arrive later.  A read returns as many of the available
\* bytes as fit.  mode is what the source does otherwise: with nothing
\* available it signals would-block ("block") or returns 0 ("eof"); with
\* "err" the read fails with another I/O error.
source_read(s, room, mode) ==
    IF mode = "err" THEN [kind |-> "Err", err |-> "Other", data |-> <<>>, src |-> s]
    ELSE IF s.avail = <<>> /\ mode = "block" /\ room > 0
        THEN [kind |-> "Err", err |-> "WouldBlock", data |-> <<>>, src |-> s]
    ELSE LET n == Min(room, Len(s.avail))
         IN [kind |-> "Ok", err |-> "", data |-> SubSeq(s.avail, 1, n),
             src |-> [s EXCEPT !.avail = SubSeq(s.avail, n + 1, Len(s.avail))]]

\* -------------------------------------------------------- AsyncBufReader
new == [buf |-> Zeros(INITIAL_BUF_SIZE), pos |-> 0, cap |-> 0]

len(r) == r.cap - r.pos

\* the readable window [pos, cap)
Window(r) == Slice(r.buf, r.pos, r.cap)

\* consume that leaves pos and cap where they are when the window empties
consume_no_reset(r, amt) ==
    [r EXCEPT !.pos = UMin(UAdd(r.pos, amt).val, r.cap)]

\* consume(amt) as the machine computes it, pos + amt wrapping modulo 2^w
consume(r, amt) ==
    LET p == UMin(UAdd(r.pos, amt).val, r.cap)
    IN IF p = r.cap THEN [r EXCEPT !.pos = 0, !.cap = 0]
       ELSE [r EXCEPT !.pos = p]

\* pos + amt overflows usize: a panic in a build with overflow checks
consume_overflows(r, amt) == UAdd(r.pos, amt).ovf

\* read that copies from the start of the backing store
read_from_start(r, dst) ==
    LET n == Min(Len(dst), len(r))
    IN [n |-> n,
        dst |-> [i \in 1..Len(dst) |-> IF i <= n THEN r.buf[i] ELSE dst[i]],
        rd |-> consume(r, n)]

\* read(dst): [n, dst, rd]
read(r, dst) ==
    LET n == Min(Len(dst), len(r))
    IN [n |-> n,
        dst |-> [i \in 1..Len(dst) |-> IF i <= n THEN r.buf[r.pos + i] ELSE dst[i]],
        rd |-> consume(r, n)]

\* the growth step of fill_buf, taken when cap == buf.len()
grow(r) ==
    LET new_len == len(r) + Min(len(r), DEFAULT_BUF_SIZE)
    IN IF new_len # Len(Window(r))
       THEN [panic |-> TRUE, rd |-> r]
       ELSE [panic |-> FALSE,
             rd |-> [r EXCEPT !.buf = [i \in 1..new_len |-> Window(r)[i]]]]

store(buf, at, data) ==
    [i \in 1..Len(buf) |-> IF i > at /\ i <= at + Len(data) THEN data[i - at] ELSE buf[i]]

\* an or_else closure that lets would-block through as an error
absorb_nothing(res) ==
    [kind |-> res.kind, err |-> res.err, nread |-> Len(res.data)]

\* the or_else closure of fill_buf: would-block counts as a read of 0 bytes,
\* any other error is returned
absorb_would_block(res) ==
    IF res.kind = "Err" /\ res.err = "WouldBlock"
    THEN [kind |-> "Ok", err |-> "", nread |-> 0]
    ELSE [kind |-> res.kind, err |-> res.err, nread |-> Len(res.data)]

RECURSIVE fill_loop(_, _, _, _)
fill_loop(r, s, mode, reads) ==
    LET grown == IF r.cap = Len(r.buf) THEN grow(r) ELSE [panic |-> FALSE, rd |-> r]
        g == grown.rd
    IN IF grown.panic
       THEN [status |-> "panic", msg |-> "copy_from_slice: length mismatch",
             rd |-> r, src |-> s, reads |-> reads]
       ELSE IF g.cap > Len(g.buf)
       THEN [status |-> "panic", msg |-> "slice index out of range",
             rd |-> g, src |-> s, reads |-> reads]
       ELSE LET remaining == Len(g.buf) - g.cap
                res == source_read(s, remaining, mode)
                got == absorb_would_block(res)
            IN IF got.kind = "Err"
               THEN [status |-> "err", msg |-> got.err,
                     rd |-> g, src |-> res.src, reads |-> reads + 1]
               ELSE LET nread == got.nread
                        r2 == [g EXCEPT !.buf = store(g.buf, g.cap, res.data),
                                        !.cap = g.cap + nread]
                    IN IF nread # remaining
                       THEN [status |-> "ok", msg |-> "",
                             rd |-> r2, src |-> res.src, reads |-> reads + 1]
                       ELSE IF remaining = 0 /\ Len(g.buf) = 0 /\ g.cap = 0
                       THEN [status |-> "hang", msg |-> "",
                             rd |-> r2, src |-> res.src, reads |-> reads + 1]
                       ELSE fill_loop(r2, res.src, mode, reads + 1)

fill_buf(r, s, mode) == fill_loop(r, s, mode, 0)

\* impl From<io::Error> for Error
from_io_error(e) == [kind |-> "Internal", error |-> e]

\* FrameIter::new
FrameIter_new(buf, max) == [buf |-> buf, pos |-> 0, max_payload |-> max]

\* a frames() that consumes the window it hands to the iterator
frames_draining(fr, s, mode) ==
    LET res == fill_buf(fr.inner, s, mode)
    IN [status |-> res.status, msg |-> res.msg,
        rd |-> IF res.status = "ok" THEN consume(res.rd, len(res.rd)) ELSE res.rd,
        src |-> res.src,
        ret |-> IF res.status = "ok"
                THEN [ok |-> TRUE, iter |-> FrameIter_new(Window(res.rd), fr.max_payload)]
                ELSE IF res.status = "err"
                THEN [ok |-> FALSE, error |-> from_io_error(res.msg)]
                ELSE [ok |-> FALSE]]

\* FrameReader::frames on [inner, max_payload]: fill_buf, then an iterator
\* over the readable window
frames(fr, s, mode) ==
    LET res == fill_buf(fr.inner, s, mode)
    IN [status |-> res.status, msg |-> res.msg, rd |-> res.rd, src |-> res.src,
        ret |-> IF res.status = "ok"
                THEN [ok |-> TRUE, iter |-> FrameIter_new(Window(res.rd), fr.max_payload)]
                ELSE IF res.status = "err"
                THEN [ok |-> FALSE, error |-> from_io_error(res.msg)]
                ELSE [ok |-> FALSE]]

\* Index<usize>, Index<Range>, Index<RangeTo>, Index<RangeFrom>, Index<RangeFull>:
\* each indexes the backing store; an index outside it panics.
index_absolute(r, i) ==
    IF i >= Len(r.buf) THEN [panic |-> TRUE, val |-> <<>>]
    ELSE [panic |-> FALSE, val |-> <<r.buf[i + 1]>>]

index(r, i) ==
    IF r.pos + i >= Len(r.buf) THEN [panic |-> TRUE, val |-> <<>>]
    ELSE [panic |-> FALSE, val |-> <<r.buf[r.pos + i + 1]>>]

slice_of(buf, from, to) ==
    IF from > to \/ to > Len(buf) THEN [panic |-> TRUE, val |-> <<>>]
    ELSE [panic |-> FALSE, val |-> Slice(buf, from, to)]

index_range(r, i, j) == slice_of(r.buf, r.pos + i, r.pos + j)

index_range_to(r, j) == slice_of(r.buf, r.pos, r.pos + j)

index_range_from(r, i) == slice_of(r.buf, r.pos + i, r.cap)

index_range_full(r) == slice_of(r.buf, r.pos, r.cap)

\* ------------------------------------------------------------ frame codec
\* A byte reader is the sequence of bytes it still holds.  A u32 is kept as
\* its two 16-bit halves [hi, lo].

RECURSIVE BitAnd(_, _)
BitAnd(a, b) ==
    IF a = 0 \/ b = 0 THEN 0
    ELSE (a % 2) * (b % 2) + 2 * BitAnd(a \div 2, b \div 2)

RECURSIVE BitOr(_, _)
BitOr(a, b) ==
    IF a = 0 THEN b
    ELSE IF b = 0 THEN a
    ELSE (IF a % 2 = 1 \/ b % 2 = 1 THEN 1 ELSE 0) + 2 * BitOr(a \div 2, b \div 2)

\* Flags::all(), the union of the declared flags
Flags_all ==
    BitOr(BitOr(BitOr(FLAG_ACK, FLAG_END_STREAM), BitOr(FLAG_END_HEADERS, FLAG_PADDED)),
          FLAG_PRIORITY)

Flags_from_bits_truncate(b) == BitAnd(b, Flags_all)

Flags_contains(flags, f) == BitAnd(flags, f) = f

\* Read::read_exact: n bytes, or an UnexpectedEof error after taking what is there
read_exact(inp, n) ==
    IF Len(inp) >= n
    THEN [ok |-> TRUE, data |-> SubSeq(inp, 1, n), rest |-> SubSeq(inp, n + 1, Len(inp))]
    ELSE [ok |-> FALSE, data |-> <<>>, rest |-> <<>>]

\* a little-endian read of 3 bytes
read_uint3_le(b) == b[3] * 65536 + b[2] * 256 + b[1]

\* BigEndian::read_uint(buf, 3), read_u16, read_u32 and their writers
read_uint3(b) == b[1] * 65536 + b[2] * 256 + b[3]

write_uint3(n) == <<(n \div 65536) % 256, (n \div 256) % 256, n % 256>>

read_u16(b) == b[1] * 256 + b[2]

write_u16(n) == <<(n \div 256) % 256, n % 256>>

read_u32(b) == [hi |-> read_u16(SubSeq(b, 1, 2)), lo |-> read_u16(SubSeq(b, 3, 4))]

write_u32(u) == write_u16(u.hi) \o write_u16(u.lo)

\* the u32 of a number below 2^31
U32(n) == [hi |-> n \div 65536, lo |-> n % 65536]

\* impl From<u32> for StreamId: the reserved high bit is cleared
StreamId_from(u) == [hi |-> u.hi % 32768, lo |-> u.lo]

\* impl From<StreamId> for u32
StreamId_into(id) == id

StreamId_is_zero(id) == id.hi = 0 /\ id.lo = 0

Err(kind, msg, rest) ==
    [st |-> "err", kind |-> kind, msg |-> msg, rest |-> rest]

\* FrameHeader::from_reader
FrameHeader_from_reader(inp) ==
    LET r == read_exact(inp, HEADER_SIZE)
        buf == r.data
    IN IF ~r.ok THEN Err(from_io_error("UnexpectedEof").kind, "UnexpectedEof", r.rest)
       ELSE [st |-> "ok", rest |-> r.rest,
             header |-> [payload_len |-> read_uint3(SubSeq(buf, 1, 3)),
                         frame_type |-> buf[4],
                         flags |-> Flags_from_bits_truncate(buf[5]),
                         stream_id |-> StreamId_from(read_u32(SubSeq(buf, 6, 9)))]]

\* FrameHeader::into_writer; BigEndian::write_uint panics when the value
\* does not fit in 3 bytes
FrameHeader_into_writer(h) ==
    IF h.payload_len > 16777215
    THEN [st |-> "panic", bytes |-> <<>>]
    ELSE [st |-> "ok",
          bytes |-> write_uint3(h.payload_len) \o <<h.frame_type, h.flags>>
                    \o write_u32(StreamId_into(h.stream_id))]

IoErr(rest) == Err(from_io_error("UnexpectedEof").kind, "UnexpectedEof", rest)

Panic(msg) == [st |-> "panic", msg |-> msg, rest |-> <<>>]

\* an Unknown decoder that takes every octet the reader holds as the payload
UnknownFrame_read_to_end(header, inp) ==
    [st |-> "ok", rest |-> <<>>,
     frame |-> [type |-> "Unknown", stream_id |-> header.stream_id,
                flags |-> header.flags, frame_type |-> header.frame_type,
                payload |-> inp]]

\* UnknownFrame::from_reader
UnknownFrame_from_reader(header, inp) ==
    LET r == read_exact(inp, header.payload_len)
    IN IF ~r.ok THEN IoErr(r.rest)
       ELSE [st |-> "ok", rest |-> r.rest,
             frame |-> [type |-> "Unknown", stream_id |-> header.stream_id,
                        flags |-> header.flags, frame_type |-> header.frame_type,
                        payload |-> r.data]]

\* a Priority decoder that tests the length before the stream id
PriorityFrame_size_first(header, inp, oc) ==
    IF header.payload_len # PRIORITY_PAYLOAD_LENGTH
    THEN Err("FrameSize",
             "Bad payload length '" \o ToString(header.payload_len)
                \o "'! The payload length for a priority frame must be 5 octets", inp)
    ELSE IF StreamId_is_zero(header.stream_id)
    THEN Err("Protocol", "Priority frame must be associated with a stream, stream id was zero", inp)
    ELSE LET r == read_exact(inp, PRIORITY_PAYLOAD_LENGTH)
             buf == r.data
             dep == read_u32(SubSeq(buf, 1, 4))
         IN IF ~r.ok THEN IoErr(r.rest)
            ELSE IF buf[5] + 1 > 255 /\ oc THEN Panic("attempt to add with overflow")
            ELSE [st |-> "ok", rest |-> r.rest,
                  frame |-> [type |-> "Priority", stream_id |-> header.stream_id,
                             exclusive |-> dep.hi >= 32768,
                             dependency |-> StreamId_from(dep),
                             weight |-> (buf[5] + 1) % 256]]

\* PriorityFrame::read; oc: the build checks arithmetic overflow
PriorityFrame_from_reader(header, inp, oc) ==
    IF StreamId_is_zero(header.stream_id)
    THEN Err("Protocol", "Priority frame must be associated with a stream, stream id was zero", inp)
    ELSE IF header.payload_len # PRIORITY_PAYLOAD_LENGTH
    THEN Err("FrameSize",
             "Bad payload length '" \o ToString(header.payload_len)
                \o "'! The payload length for a priority frame must be 5 octets", inp)
    ELSE LET r == read_exact(inp, PRIORITY_PAYLOAD_LENGTH)
             buf == r.data
             dep == read_u32(SubSeq(buf, 1, 4))
         IN IF ~r.ok THEN IoErr(r.rest)
            ELSE IF buf[5] + 1 > 255 /\ oc THEN Panic("attempt to add with overflow")
            ELSE [st |-> "ok", rest |-> r.rest,
                  frame |-> [type |-> "Priority", stream_id |-> header.stream_id,
                             exclusive |-> dep.hi >= 32768,
                             dependency |-> StreamId_from(dep),
                             weight |-> (buf[5] + 1) % 256]]

\* the MAX_FRAME_SIZE test with the lower limit exclusive
frame_size_out_of_range_strict(val) ==
    (val.hi = 0 /\ val.lo <= MIN_FRAME_SIZE) \/ val.hi > MAX_FRAME_SIZE \div 65536

\* val < MIN_FRAME_SIZE || val > MAX_FRAME_SIZE
frame_size_out_of_range(val) ==
    (val.hi = 0 /\ val.lo < MIN_FRAME_SIZE) \/ val.hi > MAX_FRAME_SIZE \div 65536

\* parse_payload of settings.rs, from entry p on; acc are the settings so far
RECURSIVE parse_settings(_, _, _)
parse_settings(payload, p, acc) ==
    IF p >= Len(payload) \div 6 THEN [ok |-> TRUE, settings |-> acc]
    ELSE LET id == read_u16(SubSeq(payload, p * 6 + 1, p * 6 + 2))
             val == read_u32(SubSeq(payload, p * 6 + 3, p * 6 + 6))
             push(name, v) == parse_settings(payload, p + 1, Append(acc, [name |-> name, val |-> v]))
         IN CASE id = 1 -> push("HeaderTableSize", val)
              [] id = 2 -> IF val = U32(0) THEN push("EnablePush", FALSE)
                           ELSE IF val = U32(1) THEN push("EnablePush", TRUE)
                           ELSE [ok |-> FALSE, kind |-> "Protocol",
                                 msg |-> "Invalid Value for enable push setting in settings frame"]
              [] id = 3 -> push("MaxConcurrentStreams", val)
              [] id = 4 -> IF val.hi >= 32768
                           THEN [ok |-> FALSE, kind |-> "FlowControl",
                                 msg |-> "Initial window size must be lower than 2^31-1 octets in settings frame"]
                           ELSE push("InitialWindowSize", val)
              [] id = 5 -> IF frame_size_out_of_range(val)
                           THEN [ok |-> FALSE, kind |-> "Protocol",
                                 msg |-> "Max frame size must be between 2^14 and 2^24-1 octets in settings frame"]
                           ELSE push("MaxFrameSize", val)
              [] id = 6 -> push("MaxHeaderListSize", val)
              [] OTHER -> parse_settings(payload, p + 1, acc)

parse_payload(payload) ==
    IF Len(payload) % 6 # 0
    THEN [ok |-> FALSE, kind |-> "FrameSize",
          msg |-> "Settings Frame payload length must be multiple of 6"]
    ELSE parse_settings(payload, 0, <<>>)

\* SettingsFrame::from_raw with the ACK test ahead of the stream id test
SettingsFrame_ack_first(header, inp) ==
    LET ack == BitAnd(header.flags, FLAG_ACK) # 0
    IN IF ack /\ header.payload_len # 0
       THEN Err("FrameSize", "Settings Frame with Ack Flag must be empty", inp)
       ELSE IF ~StreamId_is_zero(header.stream_id)
       THEN Err("Protocol", "The stream identifier for a settings frame must be zero", inp)
       ELSE LET r == read_exact(inp, header.payload_len)
                parsed == parse_payload(r.data)
            IN IF ~r.ok THEN IoErr(r.rest)
               ELSE IF ~parsed.ok THEN Err(parsed.kind, parsed.msg, r.rest)
               ELSE [st |-> "ok", rest |-> r.rest,
                     frame |-> [type |-> "Settings", settings |-> parsed.settings,
                                ack |-> ack]]

\* SettingsFrame::from_raw
SettingsFrame_from_reader(header, inp) ==
    IF ~StreamId_is_zero(header.stream_id)
    THEN Err("Protocol", "The stream identifier for a settings frame must be zero", inp)
    ELSE LET ack == BitAnd(header.flags, FLAG_ACK) # 0
         IN IF ack /\ header.payload_len # 0
            THEN Err("FrameSize", "Settings Frame with Ack Flag must be empty", inp)
            ELSE LET r == read_exact(inp, header.payload_len)
                     parsed == parse_payload(r.data)
                 IN IF ~r.ok THEN IoErr(r.rest)
                    ELSE IF ~parsed.ok THEN Err(parsed.kind, parsed.msg, r.rest)
                    ELSE [st |-> "ok", rest |-> r.rest,
                          frame |-> [type |-> "Settings", settings |-> parsed.settings,
                                     ack |-> ack]]

\* usize subtraction a - b with b small: [ovf, val]
USub(a, b) == [ovf |-> a >= 0 /\ a - b < 0, val |-> a - b]

\* HeadersFrame::from_reader: read, discard padding
read_padding(inp, padded, pad_len) ==
    IF padded THEN read_exact(inp, pad_len)
    ELSE [ok |-> TRUE, data |-> <<>>, rest |-> inp]

\* HeadersFrame::from_reader after its stream id test
HeadersFrame_read_payload(header, inp, oc) ==
    LET padded == Flags_contains(header.flags, FLAG_PADDED)
        r1 == IF padded THEN read_exact(inp, 1) ELSE [ok |-> TRUE, data |-> <<0>>, rest |-> inp]
        pad_len == r1.data[1]
        len1 == IF padded THEN USub(header.payload_len, pad_len + 1)
                ELSE [ovf |-> FALSE, val |-> header.payload_len]
        has_prio == Flags_contains(header.flags, FLAG_PRIORITY)
        r2 == IF has_prio THEN PriorityFrame_from_reader(header, r1.rest, oc)
              ELSE [st |-> "ok", rest |-> r1.rest]
        len2 == IF has_prio THEN USub(len1.val, PRIORITY_PAYLOAD_LENGTH)
                ELSE [ovf |-> FALSE, val |-> len1.val]
    IN IF ~r1.ok THEN IoErr(r1.rest)
       ELSE IF len1.ovf /\ oc THEN Panic("attempt to subtract with overflow")
       ELSE IF r2.st # "ok" THEN r2
       ELSE IF len2.ovf /\ oc THEN Panic("attempt to subtract with overflow")
       ELSE IF len2.val < 0 THEN Panic("capacity overflow")
       ELSE LET r3 == read_exact(r2.rest, len2.val)
                r4 == read_padding(r3.rest, padded, pad_len)
            IN IF ~r3.ok THEN IoErr(r3.rest)
               ELSE IF ~r4.ok THEN IoErr(r4.rest)
               ELSE [st |-> "ok", rest |-> r4.rest,
                     frame |-> [type |-> "Headers", stream_id |-> header.stream_id,
                                fragment |-> r3.data,
                                priority |-> IF has_prio THEN <<r2.frame>> ELSE <<>>,
                                end_headers |-> Flags_contains(header.flags, FLAG_END_HEADERS),
                                end_stream |-> Flags_contains(header.flags, FLAG_END_STREAM)]]

\* a Headers decoder without the stream id test
HeadersFrame_unchecked(header, inp, oc) == HeadersFrame_read_payload(header, inp, oc)

\* HeadersFrame::from_reader
HeadersFrame_from_reader(header, inp, oc) ==
    IF StreamId_is_zero(header.stream_id)
    THEN Err("Protocol", "Headers frame must be associated with a stream, stream id was zero", inp)
    ELSE HeadersFrame_read_payload(header, inp, oc)

\* a size check that also rejects payload_len == max_size
exceeds_or_equal(payload_len, max_size) ==
    UGreater(payload_len, max_size) \/ payload_len = max_size

\* the size check of read_frame_checked
exceeds(payload_len, max_size) == UGreater(payload_len, max_size)

\* ReadFrame::read_frame_checked
read_frame_checked(inp, max_size, oc) ==
    LET h == FrameHeader_from_reader(inp)
        header == h.header
    IN IF h.st # "ok" THEN h
       ELSE IF exceeds(header.payload_len, max_size)
       THEN Err("FrameSize", "payload length exceeds max frame size setting", h.rest)
       ELSE CASE header.frame_type = TYPE_HEADERS -> HeadersFrame_from_reader(header, h.rest, oc)
              [] header.frame_type = TYPE_SETTINGS -> SettingsFrame_from_reader(header, h.rest)
              [] header.frame_type = TYPE_PRIORITY -> PriorityFrame_from_reader(header, h.rest, oc)
              [] OTHER -> UnknownFrame_from_reader(header, h.rest)

\* ReadFrame::read_frame
read_frame(inp, oc) == read_frame_checked(inp, USIZE_MAX, oc)

\* FrameIter::len
FrameIter_len(it) == Len(it.buf) - it.pos

\* a next() that leaves the cursor in front of a frame it could not decode
FrameIter_yield_stuck(it, size, res) ==
    IF res.st = "panic" THEN [st |-> "panic", msg |-> res.msg, it |-> it]
    ELSE [st |-> res.st, res |-> res,
          it |-> IF res.st = "ok" THEN [it EXCEPT !.pos = it.pos + size] ELSE it]

\* FrameIter::next once the frame is known to be complete: the frame is read
\* from the bytes that follow pos, and pos moves past it
FrameIter_yield(it, size, res) ==
    IF res.st = "panic" THEN [st |-> "panic", msg |-> res.msg, it |-> it]
    ELSE [st |-> res.st, res |-> res, it |-> [it EXCEPT !.pos = it.pos + size]]

\* FrameIter::next on the bytes buf that follow pos
FrameIter_next_at(it, buf, oc) ==
    IF Len(buf) < 4 THEN [st |-> "panic", msg |-> "slice index out of range", it |-> it]
    ELSE IF UGreater(read_uint3(SubSeq(buf, 1, 3)), it.max_payload)
    THEN [st |-> "err", it |-> it,
          res |-> Err("FrameSize", "payload length exceeds max frame size setting", buf)]
    ELSE IF FrameIter_len(it) < read_uint3(SubSeq(buf, 1, 3)) + HEADER_SIZE
    THEN [st |-> "none", it |-> it]
    ELSE FrameIter_yield(it, read_uint3(SubSeq(buf, 1, 3)) + HEADER_SIZE, read_frame(buf, oc))

\* FrameIter::next: [st, it] with st "none" for None, "ok" or "err" for Some
FrameIter_next(it, oc) ==
    IF FrameIter_len(it) < 3 THEN [st |-> "none", it |-> it]
    ELSE FrameIter_next_at(it, SubSeq(it.buf, it.pos + 1, Len(it.buf)), oc)

\* ---------------------------------------------------------- frame encoders
\* PriorityFrame::write_payload
PriorityFrame_write_payload(f, oc) ==
    LET dep == StreamId_into(f.dependency)
        d == IF f.exclusive THEN [hi |-> (dep.hi % 32768) + 32768, lo |-> dep.lo] ELSE dep
    IN IF f.weight - 1 < 0 /\ oc THEN [st |-> "panic", bytes |-> <<>>]
       ELSE [st |-> "ok", bytes |-> write_u32(d) \o <<(f.weight + 255) % 256>>]

Setting_id(name) ==
    CASE name = "HeaderTableSize" -> 1
      [] name = "EnablePush" -> 2
      [] name = "MaxConcurrentStreams" -> 3
      [] name = "InitialWindowSize" -> 4
      [] name = "MaxFrameSize" -> 5
      [] name = "MaxHeaderListSize" -> 6

\* a payload writer that writes 0 for every value
Setting_value_zero(set) == U32(0)

Setting_value(set) ==
    IF set.name = "EnablePush" THEN U32(IF set.val THEN 1 ELSE 0) ELSE set.val

\* a payload writer that writes the last setting first
RECURSIVE SettingsFrame_write_payload_reversed(_)
SettingsFrame_write_payload_reversed(settings) ==
    IF settings = <<>> THEN <<>>
    ELSE SettingsFrame_write_payload_reversed(Tail(settings))
         \o write_u16(Setting_id(Head(settings).name)) \o write_u32(Setting_value(Head(settings)))

\* SettingsFrame::write_payload
RECURSIVE SettingsFrame_write_payload(_)
SettingsFrame_write_payload(settings) ==
    IF settings = <<>> THEN <<>>
    ELSE write_u16(Setting_id(Head(settings).name)) \o write_u32(Setting_value(Head(settings)))
         \o SettingsFrame_write_payload(Tail(settings))

\* Frame::payload_len
Frame_payload_len(f) ==
    CASE f.type = "Unknown" -> Len(f.payload)
      [] f.type = "Headers" ->
            Len(f.fragment) + (IF f.priority # <<>> THEN PRIORITY_PAYLOAD_LENGTH ELSE 0)
      [] f.type = "Priority" -> PRIORITY_PAYLOAD_LENGTH
      [] f.type = "Settings" -> 6 * Len(f.settings)

\* Frame::frame_type
Frame_frame_type(f) ==
    CASE f.type = "Unknown" -> f.frame_type
      [] f.type = "Headers" -> TYPE_HEADERS
      [] f.type = "Priority" -> TYPE_PRIORITY
      [] f.type = "Settings" -> TYPE_SETTINGS

\* Frame::flags
Frame_flags(f) ==
    CASE f.type = "Unknown" -> f.flags
      [] f.type = "Headers" ->
            (IF f.end_headers THEN FLAG_END_HEADERS ELSE 0)
            + (IF f.end_stream THEN FLAG_END_STREAM ELSE 0)
            + (IF f.priority # <<>> THEN FLAG_PRIORITY ELSE 0)
      [] f.type = "Priority" -> 0
      [] f.type = "Settings" -> IF f.ack THEN 1 ELSE 0

\* Frame::stream_id
Frame_stream_id(f) ==
    IF f.type = "Settings" THEN U32(0) ELSE f.stream_id

\* Frame::into_writer: the payload
Frame_into_writer(f, oc) ==
    CASE f.type = "Unknown" -> [st |-> "ok", bytes |-> f.payload]
      [] f.type = "Headers" ->
            IF f.priority = <<>> THEN [st |-> "ok", bytes |-> f.fragment]
            ELSE LET p == PriorityFrame_write_payload(f.priority[1], oc)
                 IN [st |-> p.st, bytes |-> p.bytes \o f.fragment]
      [] f.type = "Priority" -> PriorityFrame_write_payload(f, oc)
      [] f.type = "Settings" -> [st |-> "ok", bytes |-> SettingsFrame_write_payload(f.settings)]

\* FrameHeader::new
FrameHeader_new(f) ==
    [payload_len |-> Frame_payload_len(f), frame_type |-> Frame_frame_type(f),
     flags |-> Frame_flags(f), stream_id |-> Frame_stream_id(f)]

\* a write_frame that stops after the header
write_frame_header_only(f, oc) ==
    LET h == FrameHeader_into_writer(FrameHeader_new(f))
    IN [st |-> h.st, bytes |-> h.bytes]

\* WriteFrame::write_frame into an empty Vec
write_frame(f, oc) ==
    LET h == FrameHeader_into_writer(FrameHeader_new(f))
        p == Frame_into_writer(f, oc)
    IN IF h.st # "ok" THEN [st |-> h.st, bytes |-> <<>>]
       ELSE IF p.st # "ok" THEN [st |-> p.st, bytes |-> h.bytes]
       ELSE [st |-> "ok", bytes |-> h.bytes \o p.bytes]

\* Write::write_all on a writer with room for `room` octets in all (a
\* &mut [u8]): every octet is written or the call fails
slice_write_all(out, room, data) ==
    IF Len(out) + Len(data) <= room THEN [st |-> "ok", bytes |-> out \o data]
    ELSE [st |-> "err", bytes |-> out \o SubSeq(data, 1, room - Len(out))]

\* Write::write on the same writer: the octets that fit are written and
\* their number is returned
slice_write(out, room, data) ==
    [st |-> "ok", bytes |-> out \o SubSeq(data, 1, Min(Len(data), room - Len(out)))]

\* WriteFrame::write_frame on a writer with room for `room` octets; the
\* Priority record goes out with write, whose count is dropped, everything
\* else with write_all
write_frame_to(f, oc, room) ==
    LET h == FrameHeader_into_writer(FrameHeader_new(f))
        w1 == slice_write_all(<<>>, room, h.bytes)
        rec == IF f.type = "Priority" THEN PriorityFrame_write_payload(f, oc)
               ELSE IF f.type = "Headers" /\ f.priority # <<>>
               THEN PriorityFrame_write_payload(f.priority[1], oc)
               ELSE [st |-> "ok", bytes |-> <<>>]
        w2 == slice_write(w1.bytes, room, rec.bytes)
    IN IF h.st # "ok" THEN [st |-> h.st, bytes |-> <<>>]
       ELSE IF w1.st # "ok" THEN w1
       ELSE IF rec.st # "ok" THEN [st |-> rec.st, bytes |-> w1.bytes]
       ELSE CASE f.type = "Priority" -> w2
              [] f.type = "Headers" -> slice_write_all(w2.bytes, room, f.fragment)
              [] OTHER -> slice_write_all(w1.bytes, room, Frame_into_writer(f, oc).bytes)

\* ------------------------------------------------------- AsyncReadFrame
\* what try_read_frame returns once the dispatcher has read from the window w
\* of reader r: the bytes the dispatcher read are consumed
try_read_frame_result(r, s, w, res) ==
    IF res.st = "panic" THEN [st |-> "panic", msg |-> res.msg, rd |-> r, src |-> s]
    ELSE [st |-> res.st, res |-> res, rd |-> consume(r, Len(w) - Len(res.rest)), src |-> s]

\* try_read_frame after a successful fill_buf: Ok(None) while the window
\* holds fewer than 3 bytes or less than the whole frame, else the dispatcher
try_read_frame_filled(r, s, max_size, oc) ==
    IF len(r) < 3 \/ len(r) < HEADER_SIZE + read_uint3(SubSeq(Window(r), 1, 3))
    THEN [st |-> "none", rd |-> r, src |-> s]
    ELSE try_read_frame_result(r, s, Window(r), read_frame_checked(Window(r), max_size, oc))

\* the outcome of fill_buf as try_read_frame sees it
try_read_frame_after(filled, max_size, oc) ==
    IF filled.status \in {"panic", "hang"}
    THEN [st |-> "panic", msg |-> filled.msg, rd |-> filled.rd, src |-> filled.src]
    ELSE IF filled.status = "err"
    THEN [st |-> "err", res |-> Err(from_io_error(filled.msg).kind, filled.msg, <<>>),
          rd |-> filled.rd, src |-> filled.src]
    ELSE try_read_frame_filled(filled.rd, filled.src, max_size, oc)

\* try_read_frame on [inner, max_payload]
try_read_frame(fr, s, mode, oc) ==
    try_read_frame_after(fill_buf(fr.inner, s, mode), fr.max_payload, oc)

\* ------------------------------------------------- buffer specification
\* The byte stream of the source: MaxWire distinct non-zero bytes.
Wire == [i \in 1..MaxWire |-> i]

\* The peer writes the stream in chunks of these sizes, in this order.
Chunks == <<FirstChunk, SecondChunk, INITIAL_BUF_SIZE - FirstChunk - SecondChunk,
            MaxWire - INITIAL_BUF_SIZE>>

\* Arguments of consume() and of the indexed peeks.
ConsumeAmts == {0, 3, INITIAL_BUF_SIZE, USIZE_MAX}
PeekOffsets == {0, 2}

\* max_payload values a FrameReader is built with
MaxPayloads == {MaxPayloadSmall, 16384}

InitBuf ==
    /\ rd = new
    /\ max_payload \in MaxPayloads
    /\ src = [avail |-> <<>>, rest |-> Wire, chunk |-> 1]
    /\ aborted = "none"
    /\ last = [op |-> "new"]

\* the peer writes its next chunk
Deliver ==
    /\ aborted = "none"
    /\ src.chunk <= Len(Chunks)
    /\ LET k == Chunks[src.chunk]
       IN src' = [src EXCEPT !.avail = src.avail \o SubSeq(src.rest, 1, k),
                             !.rest = SubSeq(src.rest, k + 1, Len(src.rest)),
                             !.chunk = src.chunk + 1]
    /\ last' = [op |-> "deliver"]
    /\ UNCHANGED <<rd, max_payload, aborted>>

FillBuf(mode) ==
    /\ aborted = "none"
    /\ LET res == fill_buf(rd, src, mode)
       IN /\ rd' = res.rd
          /\ src' = res.src
          /\ aborted' = IF res.status \in {"panic", "hang"} THEN res.msg ELSE "none"
          /\ last' = [op |-> "fill_buf", mode |-> mode,
                      status |-> res.status, err |-> res.msg,
                      reads |-> res.reads,
                      ret |-> IF res.status = "ok" THEN Window(res.rd) ELSE <<>>]
    /\ UNCHANGED max_payload

Frames(mode) ==
    /\ aborted = "none"
    /\ LET res == frames([inner |-> rd, max_payload |-> max_payload], src, mode)
       IN /\ rd' = res.rd
          /\ src' = res.src
          /\ aborted' = IF res.status \in {"panic", "hang"} THEN res.msg ELSE "none"
          /\ last' = [op |-> "frames", mode |-> mode, status |-> res.status,
                      ret |-> res.ret]
    /\ UNCHANGED max_payload

Read(n) ==
    /\ aborted = "none"
    /\ LET res == read(rd, [i \in 1..n |-> 255])
       IN /\ rd' = res.rd
          /\ last' = [op |-> "read", n |-> res.n, dst |-> res.dst]
    /\ UNCHANGED <<src, max_payload, aborted>>

\* overflow_checks: the build panics on arithmetic overflow (debug) or wraps
Consume(amt, overflow_checks) ==
    /\ aborted = "none"
    /\ IF consume_overflows(rd, amt) /\ overflow_checks
       THEN /\ aborted' = "attempt to add with overflow"
            /\ UNCHANGED rd
       ELSE /\ rd' = consume(rd, amt)
            /\ UNCHANGED aborted
    /\ last' = [op |-> "consume", amt |-> amt]
    /\ UNCHANGED <<src, max_payload>>

Peek(kind, i, j) ==
    /\ aborted = "none"
    /\ LET res == CASE kind = "at" -> index(rd, i)
                    [] kind = "range" -> index_range(rd, i, j)
                    [] kind = "to" -> index_range_to(rd, j)
                    [] kind = "from" -> index_range_from(rd, i)
                    [] kind = "full" -> index_range_full(rd)
       IN /\ aborted' = IF res.panic THEN "index out of range" ELSE "none"
          /\ last' = [op |-> "peek", kind |-> kind, i |-> i, j |-> j, val |-> res.val]
    /\ UNCHANGED <<rd, src, max_payload>>

NextBuf ==
    \/ Deliver
    \/ \E m \in {"block", "eof", "err"} : FillBuf(m)
    \/ \E m \in {"block", "eof", "err"} : Frames(m)
    \/ \E n \in {0, 2, MaxDst} : Read(n)
    \/ \E amt \in ConsumeAmts, oc \in BOOLEAN : Consume(amt, oc)
    \/ \E i \in PeekOffsets : Peek("at", i, i)
    \/ \E i \in PeekOffsets, j \in PeekOffsets : Peek("range", i, j)
    \/ \E j \in PeekOffsets : Peek("to", 0, j)
    \/ \E i \in PeekOffsets : Peek("from", i, 0)
    \/ Peek("full", 0, 0)

SpecBuf == InitBuf /\ [][NextBuf]_vars

\* -------------------------------------------------- codec specification
\* A run applies one codec function to one input; last holds the input and
\* what the function returned.
PayloadLens == {0, 1, PRIORITY_PAYLOAD_LENGTH, 6, MaxPayloadSmall, MaxPayloadSmall + 1,
                65536, MAX_FRAME_SIZE}
FrameTypes == {0, TYPE_HEADERS, TYPE_PRIORITY, TYPE_SETTINGS, 9, 255}
FlagSets == {0, FLAG_ACK, FLAG_PADDED, FLAG_PRIORITY, FLAG_END_HEADERS + FLAG_END_STREAM,
             Flags_all}
StreamIds == {U32(0), U32(1), U32(65536), [hi |-> 32767, lo |-> 65535]}
Headers == [payload_len : PayloadLens, frame_type : FrameTypes, flags : FlagSets,
            stream_id : StreamIds]
MaxSizes == {0, PRIORITY_PAYLOAD_LENGTH, MaxPayloadSmall, MIN_FRAME_SIZE, MAX_FRAME_SIZE,
             USIZE_MAX}
\* how many payload bytes follow the header in the input
PayloadAvail == {0, PRIORITY_PAYLOAD_LENGTH, 6, MaxPayloadBytes}

Pattern(n) == [i \in 1..n |-> i]

InitCodec ==
    /\ rd = new
    /\ src = [avail |-> <<>>, rest |-> <<>>, chunk |-> 1]
    /\ max_payload = MaxPayloadSmall
    /\ aborted = "none"
    /\ last = [op |-> "none"]

EncodeHeader(h) ==
    /\ last.op = "none"
    /\ LET w == FrameHeader_into_writer(h)
       IN last' = [op |-> "header", h |-> h, st |-> w.st, bytes |-> w.bytes,
                   back |-> FrameHeader_from_reader(w.bytes)]
    /\ UNCHANGED <<rd, src, max_payload, aborted>>

DecodeHeader(bytes) ==
    /\ last.op = "none"
    /\ last' = [op |-> "decode_header", bytes |-> bytes,
                res |-> FrameHeader_from_reader(bytes)]
    /\ UNCHANGED <<rd, src, max_payload, aborted>>

ReadFrameChecked(h, n, max_size, oc) ==
    /\ last.op = "none"
    /\ LET inp == FrameHeader_into_writer(h).bytes \o Pattern(n)
       IN last' = [op |-> "read_frame_checked", inp |-> inp, max_size |-> max_size,
                   res |-> read_frame_checked(inp, max_size, oc)]
    /\ UNCHANGED <<rd, src, max_payload, aborted>>

ReadFrame(h, n, oc) ==
    /\ last.op = "none"
    /\ LET inp == FrameHeader_into_writer(h).bytes \o Pattern(n)
       IN last' = [op |-> "read_frame", inp |-> inp, res |-> read_frame(inp, oc)]
    /\ UNCHANGED <<rd, src, max_payload, aborted>>

AnyEncodeHeader ==
    /\ last.op = "none"
    /\ \E h \in Headers : EncodeHeader(h)

AnyDecodeHeader ==
    /\ last.op = "none"
    /\ \E l \in {0, 255}, t \in {0, 255}, f \in {0, 255}, s1 \in {0, 127, 128, 255},
          s \in {0, 255} :
            DecodeHeader(<<l, 0, l, t, f, s1, s, 0, s>>)

AnyReadFrameChecked ==
    /\ last.op = "none"
    /\ \E h \in Headers, n \in PayloadAvail, m \in MaxSizes, oc \in BOOLEAN :
            ReadFrameChecked(h, n, m, oc)

AnyReadFrame ==
    /\ last.op = "none"
    /\ \E h \in Headers, n \in PayloadAvail, oc \in BOOLEAN : ReadFrame(h, n, oc)

\* Octet strings on the wire: the 9 header octets from raw field values
\* (the flags octet and the stream-id word as they travel, reserved bit
\* included), followed by payload octets that need not match the length.
WireTypes == {0, TYPE_HEADERS, TYPE_PRIORITY, TYPE_SETTINGS, 9, 255}
WireFlags ==
    {0, FLAG_ACK, FLAG_END_HEADERS, FLAG_PADDED, FLAG_PRIORITY,
     FLAG_PADDED + FLAG_PRIORITY, 64, 255}
WireStreamIds == {U32(0), U32(1), [hi |-> 32768, lo |-> 0], [hi |-> 65535, lo |-> 65535]}
WireLens == {0, 1, PRIORITY_PAYLOAD_LENGTH, 6, 7, MaxPayloadBytes}
WirePayloads ==
    {<<>>, <<9>>, <<0, 0, 3>>,
     <<0, 0, 0, 3, 0>>, <<128, 0, 0, 3, 15>>, <<255, 255, 255, 255, 255>>,
     <<0, 5, 0, 0, 64, 0>>, <<0, 2, 0, 0, 0, 2>>, <<0, 9, 1, 2, 3, 4>>,
     <<1, 2, 3, 4, 5, 6, 7>>,
     <<0, 1, 0, 0, 0, 100, 0, 4, 127, 255, 255, 255>>}

WireHeader(plen, t, fl, sid) == write_uint3(plen) \o <<t, fl>> \o write_u32(sid)

\* read_frame on a wire string; a frame that decodes is written again
DecodeWire(plen, t, fl, sid, payload, oc) ==
    /\ last.op = "none"
    /\ LET inp == WireHeader(plen, t, fl, sid) \o payload
           res == read_frame(inp, oc)
       IN last' = [op |-> "decode", inp |-> inp, plen |-> plen, t |-> t, fl |-> fl,
                   sid |-> sid, payload |-> payload, oc |-> oc, res |-> res,
                   out |-> IF res.st = "ok" THEN write_frame(res.frame, oc)
                           ELSE [st |-> "none", bytes |-> <<>>]]
    /\ UNCHANGED <<rd, src, max_payload, aborted>>

AnyDecodeWire ==
    /\ last.op = "none"
    /\ \E plen \in WireLens, t \in WireTypes, fl \in WireFlags, sid \in WireStreamIds,
          payload \in WirePayloads, oc \in BOOLEAN :
            DecodeWire(plen, t, fl, sid, payload, oc)

\* read_frame on an input that ends inside the header
ReadShort(h, k, oc) ==
    /\ last.op = "none"
    /\ LET inp == SubSeq(FrameHeader_into_writer(h).bytes, 1, k)
       IN last' = [op |-> "read_short", inp |-> inp, res |-> read_frame(inp, oc)]
    /\ UNCHANGED <<rd, src, max_payload, aborted>>

AnyReadShort ==
    /\ last.op = "none"
    /\ \E h \in Headers, k \in 0..(HEADER_SIZE - 1), oc \in BOOLEAN : ReadShort(h, k, oc)

\* Frames handed to write_frame.
FrameStreamIds == {U32(1), U32(3), [hi |-> 32767, lo |-> 65535]}
Fragments == {<<>>, <<1, 2, 3>>, <<200, 0, 1, 2, 3, 4, 5, 6, 7, 8, 9>>}
Weights == {1, 16, 255}

PriorityFrames ==
    [type : {"Priority"}, stream_id : FrameStreamIds, exclusive : BOOLEAN,
     dependency : {U32(0)} \cup FrameStreamIds, weight : Weights]

HeadersFrames ==
    [type : {"Headers"}, stream_id : FrameStreamIds, fragment : Fragments,
     priority : {<<>>} \cup {<<p>> : p \in {q \in PriorityFrames : q.weight = 16}},
     end_headers : BOOLEAN, end_stream : BOOLEAN]

UnknownFrames ==
    [type : {"Unknown"}, stream_id : {U32(0)} \cup FrameStreamIds,
     flags : FlagSets, frame_type : {0, 9, 255},
     payload : Fragments \cup {Pattern(MaxPayloadBytes)}]

\* settings the decoder accepts
ValidSettings ==
    <<[name |-> "HeaderTableSize", val |-> U32(0)],
      [name |-> "HeaderTableSize", val |-> [hi |-> 65535, lo |-> 65535]],
      [name |-> "EnablePush", val |-> FALSE],
      [name |-> "EnablePush", val |-> TRUE],
      [name |-> "MaxConcurrentStreams", val |-> U32(MaxPayloadSmall)],
      [name |-> "InitialWindowSize", val |-> U32(0)],
      [name |-> "InitialWindowSize", val |-> [hi |-> 32767, lo |-> 65535]],
      [name |-> "MaxFrameSize", val |-> U32(MIN_FRAME_SIZE)],
      [name |-> "MaxFrameSize", val |-> [hi |-> 255, lo |-> 65535]],
      [name |-> "MaxHeaderListSize", val |-> U32(1)]>>

\* the Settings frame with the first n of the settings numbered i and j
SettingsFrame_of(ack, n, i, j) ==
    [type |-> "Settings", ack |-> ack,
     settings |-> SubSeq(<<ValidSettings[i], ValidSettings[j]>>, 1, n)]

\* write_frame into an empty Vec, then read_frame on what was written
RoundTrip(f, oc) ==
    /\ last.op = "none"
    /\ LET w == write_frame(f, oc)
       IN last' = [op |-> "round_trip", f |-> f, oc |-> oc, w |-> w,
                   back |-> IF w.st = "ok" THEN read_frame(w.bytes, oc)
                            ELSE [st |-> "none", rest |-> <<>>]]
    /\ UNCHANGED <<rd, src, max_payload, aborted>>

AnyRoundTrip ==
    /\ last.op = "none"
    /\ \E f \in PriorityFrames \cup HeadersFrames \cup UnknownFrames,
          oc \in BOOLEAN : RoundTrip(f, oc)

AnyRoundTripSettings ==
    /\ last.op = "none"
    /\ \/ \E oc \in BOOLEAN : RoundTrip(SettingsFrame_of(TRUE, 0, 1, 1), oc)
       \/ \E n \in 0..2, i \in 1..Len(ValidSettings), j \in 1..Len(ValidSettings),
             oc \in BOOLEAN : RoundTrip(SettingsFrame_of(FALSE, n, i, j), oc)

\* Settings payloads on the wire: (id, value) pairs of 6 octets each, with the
\* values on both sides of every limit parse_payload tests.
PairIds == 0..7
PairValues ==
    {U32(0), U32(1), U32(2), U32(MIN_FRAME_SIZE - 1), U32(MIN_FRAME_SIZE),
     [hi |-> MAX_FRAME_SIZE \div 65536, lo |-> 65535],
     [hi |-> MAX_FRAME_SIZE \div 65536 + 1, lo |-> 0],
     [hi |-> 32767, lo |-> 65535], [hi |-> 32768, lo |-> 0],
     [hi |-> 65535, lo |-> 65535]}
SettingPairs == [id : PairIds, val : PairValues]
MiddlePairs ==
    {[id |-> 7, val |-> U32(2)], [id |-> 0, val |-> [hi |-> 65535, lo |-> 65535]],
     [id |-> 2, val |-> U32(2)], [id |-> 3, val |-> U32(1)]}

PairOctets(pair) == write_u16(pair.id) \o write_u32(pair.val)

RECURSIVE PairsOctets(_)
PairsOctets(pairs) ==
    IF pairs = <<>> THEN <<>> ELSE PairOctets(Head(pairs)) \o PairsOctets(Tail(pairs))

\* read_frame on a Settings frame of stream 0 without ACK that carries the
\* pairs; a frame that decodes is written again
DecodeSettings(pairs, oc) ==
    /\ last.op = "none"
    /\ LET inp == WireHeader(6 * Len(pairs), TYPE_SETTINGS, 0, U32(0)) \o PairsOctets(pairs)
           res == read_frame(inp, oc)
       IN last' = [op |-> "settings", inp |-> inp, pairs |-> pairs, oc |-> oc, res |-> res,
                   out |-> IF res.st = "ok" THEN write_frame(res.frame, oc)
                           ELSE [st |-> "none", bytes |-> <<>>]]
    /\ UNCHANGED <<rd, src, max_payload, aborted>>

AnyDecodeSettings ==
    /\ last.op = "none"
    /\ \/ \E a \in SettingPairs, oc \in BOOLEAN : DecodeSettings(<<a>>, oc)
       \/ \E a \in SettingPairs, b \in SettingPairs, oc \in BOOLEAN :
             DecodeSettings(<<a, b>>, oc)
       \/ \E a \in SettingPairs, m \in MiddlePairs, b \in SettingPairs, oc \in BOOLEAN :
             DecodeSettings(<<a, m, b>>, oc)

\* write_frame on a writer with limited room
\* the client connection preface
PREFACE ==
    <<80, 82, 73, 32, 42, 32, 72, 84, 84, 80, 47, 50, 46, 48,
      13, 10, 13, 10, 83, 77, 13, 10, 13, 10>>

\* Write::write on a connection that takes `accepts` octets in one call:
\* that many octets of data are written and their number is returned
conn_write(out, accepts, data) ==
    [st |-> "ok", bytes |-> out \o SubSeq(data, 1, Min(Len(data), accepts))]

\* SettingsFrame::ack
SettingsFrame_ack == [type |-> "Settings", ack |-> TRUE, settings |-> <<>>]

\* Client::init on such a connection: the preface goes out with write, whose
\* count is dropped, the frame with write_frame
Client_init(accepts, oc) ==
    LET w1 == conn_write(<<>>, accepts, PREFACE)
        w2 == write_frame(SettingsFrame_ack, oc)
    IN [st |-> w2.st, bytes |-> w1.bytes \o w2.bytes]

Rooms == {HEADER_SIZE - 1, HEADER_SIZE, HEADER_SIZE + 2, HEADER_SIZE + 4,
          HEADER_SIZE + PRIORITY_PAYLOAD_LENGTH, HEADER_SIZE + 8, MaxWire}

WriteTo(f, oc, room) ==
    /\ last.op = "none"
    /\ last' = [op |-> "write_to", f |-> f, oc |-> oc, room |-> room,
                w |-> write_frame_to(f, oc, room)]
    /\ UNCHANGED <<rd, src, max_payload, aborted>>

AnyWriteTo ==
    /\ last.op = "none"
    /\ \E f \in PriorityFrames \cup HeadersFrames \cup UnknownFrames,
          oc \in BOOLEAN, room \in Rooms : WriteTo(f, oc, room)

\* Client::init, and the peer reading the preface and then a frame
ClientInit(accepts, oc) ==
    /\ last.op = "none"
    /\ LET w == Client_init(accepts, oc)
       IN last' = [op |-> "init", accepts |-> accepts, oc |-> oc, w |-> w,
                   preface |-> SubSeq(w.bytes, 1, Min(Len(w.bytes), Len(PREFACE))),
                   back |-> read_frame(SubSeq(w.bytes, Len(PREFACE) + 1, Len(w.bytes)), oc)]
    /\ UNCHANGED <<rd, src, max_payload, aborted>>

AnyClientInit ==
    /\ last.op = "none"
    /\ \E accepts \in {1, Len(PREFACE) - 1, Len(PREFACE), MaxWire}, oc \in BOOLEAN :
            ClientInit(accepts, oc)

NextCodec ==
    \/ AnyEncodeHeader
    \/ AnyDecodeHeader
    \/ AnyReadFrameChecked
    \/ AnyReadFrame
    \/ AnyDecodeWire
    \/ AnyReadShort
    \/ AnyRoundTrip
    \/ AnyRoundTripSettings
    \/ AnyDecodeSettings
    \/ AnyWriteTo
    \/ AnyClientInit

SpecCodec == InitCodec /\ [][NextCodec]_vars

\* ------------------------------------------- partial-read specification
\* One frame is written by the peer in two parts; a frame read is attempted
\* after each part.  last holds the frame, the two parts, and what the
\* attempts yielded.
PartialPayloadLens == {0, 3, INITIAL_BUF_SIZE - HEADER_SIZE - 1, INITIAL_BUF_SIZE - HEADER_SIZE}

PartialFrames ==
    {[type |-> "Unknown", stream_id |-> U32(1), flags |-> 0, frame_type |-> 9,
      payload |-> Pattern(n)] : n \in PartialPayloadLens}
    \cup {[type |-> "Headers", stream_id |-> U32(1), fragment |-> Pattern(n),
           priority |-> <<>>, end_headers |-> TRUE, end_stream |-> e]
            : n \in {0, 3}, e \in BOOLEAN}
    \cup {[type |-> "Priority", stream_id |-> U32(1), exclusive |-> TRUE,
           dependency |-> U32(3), weight |-> 16]}
    \cup {[type |-> "Settings", ack |-> TRUE, settings |-> <<>>],
          [type |-> "Settings", ack |-> FALSE,
           settings |-> <<[name |-> "MaxFrameSize", val |-> U32(MIN_FRAME_SIZE)]>>]}

\* the encoding of f cut after its first k bytes
Split(f, k, path) ==
    LET bytes == write_frame(f, TRUE).bytes
    IN [op |-> "start", phase |-> 0, frame |-> f, path |-> path,
        a |-> SubSeq(bytes, 1, k), b |-> SubSeq(bytes, k + 1, Len(bytes)),
        yielded |-> <<>>, errors |-> <<>>, window1 |-> <<>>]

\* a frame read is try_read_frame, or frames() and the iterator's next()
ReadPaths == {"try_read_frame", "frames"}

PartialStarts ==
    UNION {{Split(f, k, path) : k \in 0..Len(write_frame(f, TRUE).bytes), path \in ReadPaths}
            : f \in PartialFrames}

InitPartial ==
    /\ rd = new
    /\ max_payload \in MaxPayloads
    /\ src = [avail |-> <<>>, rest |-> <<>>, chunk |-> 1]
    /\ aborted = "none"
    /\ last \in PartialStarts

\* the peer writes the prefix, and after the first attempt the suffix
DeliverPart ==
    /\ aborted = "none"
    /\ last.phase \in {0, 2}
    /\ src' = [src EXCEPT !.avail = src.avail \o (IF last.phase = 0 THEN last.a ELSE last.b)]
    /\ last' = [last EXCEPT !.op = "deliver", !.phase = last.phase + 1]
    /\ UNCHANGED <<rd, max_payload, aborted>>

\* one frame read over the reader
TryReadFrame(mode, oc) ==
    /\ aborted = "none"
    /\ last.phase \in {1, 3}
    /\ last.path = "try_read_frame"
    /\ LET res == try_read_frame([inner |-> rd, max_payload |-> max_payload], src, mode, oc)
       IN /\ rd' = res.rd
          /\ src' = res.src
          /\ aborted' = IF res.st = "panic" THEN res.msg ELSE "none"
          /\ last' = [last EXCEPT
                        !.op = "try_read_frame",
                        !.phase = last.phase + 1,
                        !.yielded = IF res.st = "ok" THEN Append(last.yielded, res.res.frame)
                                    ELSE last.yielded,
                        !.errors = IF res.st = "err" THEN Append(last.errors, res.res.kind)
                                   ELSE last.errors,
                        !.window1 = IF last.phase = 1 THEN Window(res.rd) ELSE last.window1]
    /\ UNCHANGED max_payload

\* frames(), one next() on the iterator, and the caller consuming what the
\* iterator went past
frames_next(fr, oc) ==
    IF fr.status \in {"panic", "hang"}
    THEN [st |-> "panic", msg |-> fr.msg, rd |-> fr.rd]
    ELSE IF fr.status = "err"
    THEN [st |-> "err", res |-> Err(fr.ret.error.kind, fr.msg, <<>>), rd |-> fr.rd]
    ELSE LET nx == FrameIter_next(fr.ret.iter, oc)
         IN IF nx.st = "panic" THEN [st |-> "panic", msg |-> nx.msg, rd |-> fr.rd]
            ELSE IF nx.st = "none" THEN [st |-> "none", rd |-> fr.rd]
            ELSE [st |-> nx.st, res |-> nx.res, rd |-> consume(fr.rd, nx.it.pos)]

FramesNext(mode, oc) ==
    /\ aborted = "none"
    /\ last.phase \in {1, 3}
    /\ last.path = "frames"
    /\ LET fr == frames([inner |-> rd, max_payload |-> max_payload], src, mode)
           res == frames_next(fr, oc)
       IN /\ rd' = res.rd
          /\ src' = fr.src
          /\ aborted' = IF res.st = "panic" THEN res.msg ELSE "none"
          /\ last' = [last EXCEPT
                        !.op = "frames_next",
                        !.phase = last.phase + 1,
                        !.yielded = IF res.st = "ok" THEN Append(last.yielded, res.res.frame)
                                    ELSE last.yielded,
                        !.errors = IF res.st = "err" THEN Append(last.errors, res.res.kind)
                                   ELSE last.errors,
                        !.window1 = IF last.phase = 1 THEN Window(res.rd) ELSE last.window1]
    /\ UNCHANGED max_payload

NextPartial ==
    \/ DeliverPart
    \/ \E m \in {"block", "eof"}, oc \in BOOLEAN : TryReadFrame(m, oc)
    \/ \E m \in {"block", "eof"}, oc \in BOOLEAN : FramesNext(m, oc)

SpecPartial == InitPartial /\ [][NextPartial]_vars

\* ------------------------------------------------- iterator specification
\* A FrameIter over a slice made of whole frames followed by a tail; next()
\* is called until it has returned None, aborted, or been called MaxCalls
\* times.  last holds the iterator, the frames, the tail and what was yielded.
MaxCalls == 4

IterMaxPayloads == {3, MaxPayloadSmall}

IterFrames ==
    {WireHeader(4, TYPE_HEADERS, 0, U32(1)) \o <<0, 1, 2, 3>>,
     WireHeader(3, 11, 0, U32(2)) \o <<3, 2, 1>>,
     WireHeader(0, TYPE_SETTINGS, FLAG_ACK, U32(0)),
     WireHeader(0, TYPE_SETTINGS, 0, U32(1)),
     WireHeader(PRIORITY_PAYLOAD_LENGTH, TYPE_PRIORITY, 0, U32(1)) \o <<128, 0, 0, 3, 15>>}

\* the first bytes of a frame that is not all there
IterTails ==
    {SubSeq(WireHeader(4, TYPE_HEADERS, 0, U32(1)) \o <<0, 1, 2, 3>>, 1, n) : n \in 0..12}
    \cup {<<0, 0, 210>>, <<0, 0, 210, 1>>,
          SubSeq(WireHeader(0, TYPE_SETTINGS, FLAG_ACK, U32(0)), 1, HEADER_SIZE - 1)}

IterSlices == {<<>>} \cup {<<a>> : a \in IterFrames} \cup {<<a, b>> : a \in IterFrames, b \in IterFrames}

RECURSIVE Concat(_)
Concat(seqs) == IF seqs = <<>> THEN <<>> ELSE Head(seqs) \o Concat(Tail(seqs))

IterStart(fs, tail, max) ==
    [op |-> "start", frames |-> fs, tail |-> tail,
     it |-> FrameIter_new(Concat(fs) \o tail, max), before |-> FrameIter_new(<<>>, max),
     oc |-> FALSE, calls |-> 0, ended |-> FALSE, items |-> <<>>, ret |-> "start"]

InitIter ==
    /\ rd = new
    /\ max_payload \in IterMaxPayloads
    /\ src = [avail |-> <<>>, rest |-> <<>>, chunk |-> 1]
    /\ aborted = "none"
    /\ last \in {IterStart(fs, tail, max_payload) : fs \in IterSlices, tail \in IterTails}

\* one call of next()
IterNext(oc) ==
    /\ aborted = "none"
    /\ ~last.ended
    /\ last.calls < MaxCalls
    /\ LET nx == FrameIter_next(last.it, oc)
       IN /\ aborted' = IF nx.st = "panic" THEN nx.msg ELSE "none"
          /\ last' = [last EXCEPT
                        !.op = "next",
                        !.before = last.it,
                        !.it = nx.it,
                        !.oc = oc,
                        !.calls = last.calls + 1,
                        !.ended = (nx.st = "none"),
                        !.ret = nx.st,
                        !.items = IF nx.st \in {"ok", "err"} THEN Append(last.items, nx.res)
                                  ELSE last.items]
    /\ UNCHANGED <<rd, src, max_payload>>

NextIter == \E oc \in BOOLEAN : IterNext(oc)

SpecIter == InitIter /\ [][NextIter]_vars

\* the same over slices of at most one whole frame, with a caller that keeps
\* calling next() for as long as a call is possible
InitIterLive ==
    /\ InitIter
    /\ Len(last.frames) <= 1

SpecIterLive == InitIterLive /\ [][NextIter]_vars /\ WF_vars(NextIter)

\* ---------------------------------------------- re-reading specification
\* Frames arrive at a FrameReader piece by piece; the caller calls frames()
\* and iterates, as test_iter_frames does, and now and then consumes.  last
\* holds the reader before the call, the items of this call (items) and
\* those of the frames() call before it when nothing was consumed in
\* between (seen).

\* next() called until it returns None or aborts, n calls at most
RECURSIVE frames_collect(_, _, _)
frames_collect_step(nx, oc, n) ==
    IF nx.st = "panic" THEN [end |-> "panic", msg |-> nx.msg, items |-> <<>>]
    ELSE IF nx.st = "none" THEN [end |-> "none", msg |-> "", items |-> <<>>]
    ELSE [frames_collect(nx.it, oc, n - 1) EXCEPT !.items = <<nx.res>> \o @]

frames_collect(it, oc, n) ==
    IF n = 0 THEN [end |-> "more", msg |-> "", items |-> <<>>]
    ELSE frames_collect_step(FrameIter_next(it, oc), oc, n)

InitReread ==
    /\ rd = new
    /\ max_payload \in IterMaxPayloads
    /\ src \in {[avail |-> <<>>, rest |-> Concat(fs) \o tail, chunk |-> 1]
                  : fs \in {f \in IterSlices : Len(f) = 2 /\ f[2][4] = TYPE_HEADERS},
                    tail \in {<<>>, <<0, 0, 210, 1>>}}
    /\ aborted = "none"
    /\ last = [op |-> "start", before |-> new, status |-> "start", end |-> "none",
               items |-> <<>>, seen |-> <<>>]

\* the next k bytes reach the socket
Arrive(k) ==
    /\ aborted = "none"
    /\ src.rest # <<>>
    /\ src' = [src EXCEPT !.avail = src.avail \o SubSeq(src.rest, 1, Min(k, Len(src.rest))),
                          !.rest = SubSeq(src.rest, Min(k, Len(src.rest)) + 1, Len(src.rest))]
    /\ last' = [last EXCEPT !.op = "arrive"]
    /\ UNCHANGED <<rd, max_payload, aborted>>

\* frames(), then next() until None
FramesAll(mode, oc) ==
    /\ aborted = "none"
    /\ LET fr == frames([inner |-> rd, max_payload |-> max_payload], src, mode)
           col == IF fr.status = "ok" THEN frames_collect(fr.ret.iter, oc, MaxCalls)
                  ELSE [end |-> "none", msg |-> "", items |-> last.items]
       IN /\ rd' = fr.rd
          /\ src' = fr.src
          /\ aborted' = IF fr.status \in {"panic", "hang"} THEN fr.msg
                        ELSE IF col.end = "panic" THEN col.msg ELSE "none"
          /\ last' = [op |-> "frames", before |-> rd, status |-> fr.status,
                      end |-> col.end, items |-> col.items, seen |-> last.items]
    /\ UNCHANGED max_payload

\* the caller consumes from the front of the window
ConsumeFront(amt) ==
    /\ aborted = "none"
    /\ len(rd) > 0
    /\ rd' = consume(rd, amt)
    /\ last' = [last EXCEPT !.op = "consume", !.items = <<>>, !.seen = <<>>]
    /\ UNCHANGED <<src, max_payload, aborted>>

NextReread ==
    \/ \E k \in {HEADER_SIZE, HEADER_SIZE + 4} : Arrive(k)
    \/ \E m \in {"block", "err"}, oc \in BOOLEAN : FramesAll(m, oc)
    \/ ConsumeFront(HEADER_SIZE)

SpecReread == InitReread /\ [][NextReread]_vars

\* ------------------------------------------------------- claims: buffer

\* C2: in every reachable state 0 <= pos <= cap <= buf.len(), and none of
\* fill_buf, read and consume aborts.
C2_BoundsAndNoAbort ==
    /\ 0 <= rd.pos /\ rd.pos <= rd.cap /\ rd.cap <= Len(rd.buf)
    /\ ~(aborted # "none" /\ last.op \in {"fill_buf", "frames", "read", "consume"})

\* C3: with k bytes available at the source, which then signals would-block
\* or returns 0, one fill_buf call returns Ok and the window afterwards is the
\* old window followed by those k bytes, for every k.
C3_FillBufDrainsSource ==
    [][(last'.op = "fill_buf" /\ last'.mode \in {"block", "eof"})
        => /\ last'.status = "ok"
           /\ Window(rd') = Window(rd) \o src.avail]_vars

\* C4: a would-block read makes fill_buf return Ok with the window unchanged;
\* any other I/O error makes it return the error, which frames() surfaces with
\* kind Internal, and leaves pos, cap and the buffered bytes as they were.
C4_WouldBlockAndIoError ==
    [][/\ (last'.op = "fill_buf" /\ last'.mode = "block" /\ src.avail = <<>>)
            => (last'.status = "ok" /\ rd' = rd /\ last'.ret = Window(rd))
       /\ (last'.op = "fill_buf" /\ last'.mode = "err")
            => (last'.status = "err" /\ rd' = rd)
       /\ (last'.op = "frames" /\ last'.mode = "err")
            => (~last'.ret.ok /\ last'.ret.error.kind = "Internal" /\ rd' = rd)]_vars

C4_Witness ==
    /\ last.op = "frames" /\ last.mode = "err"
    /\ ~last.ret.ok /\ last.ret.error.kind = "Internal"
    /\ rd.pos > 0 /\ rd.cap > rd.pos

\* C5: read(dst) returns n = min(dst.len(), len()), copies the first n bytes
\* of the window to dst[0..n], leaves dst[n..] untouched, removes those n bytes
\* from the front of the window and does not touch the source.
C5_ReadCopiesFront ==
    [][last'.op = "read"
        => LET n == last'.n
               dst == last'.dst
               w == Window(rd)
           IN /\ n = Min(Len(dst), Len(w))
              /\ \A i \in 1..Len(dst) : dst[i] = IF i <= n THEN w[i] ELSE 255
              /\ Window(rd') = SubSeq(w, n + 1, Len(w))
              /\ src' = src
              /\ aborted' = "none"]_vars

C5_Witness ==
    /\ last.op = "read" /\ last.n > 0 /\ last.n < Len(last.dst)
    /\ last.dst[1] > 1

\* C6: consume(n) removes the first min(n, len()) bytes of the window and
\* never fails, also when n exceeds len().
C6_ConsumeAdvances ==
    [][last'.op = "consume"
        => LET k == UMin(last'.amt, len(rd))
           IN /\ aborted' = "none"
              /\ len(rd') = len(rd) - k
              /\ Window(rd') = SubSeq(Window(rd), k + 1, Len(Window(rd)))]_vars

\* C7: an empty window always has pos = cap = 0; read and consume reset both
\* when they drain the window, and the next fill_buf stores the incoming bytes
\* from offset 0 of the backing store.
C7_EmptyWindowIsReset ==
    [][/\ (rd'.pos = rd'.cap) => (rd'.pos = 0 /\ rd'.cap = 0)
       /\ (last'.op = "fill_buf" /\ last'.status = "ok" /\ rd.pos = rd.cap)
            => /\ rd'.pos = 0
               /\ rd'.cap = Len(src.avail)
               /\ Slice(rd'.buf, 0, rd'.cap) = src.avail]_vars

C7_Witness ==
    /\ last.op = "fill_buf" /\ last.status = "ok"
    /\ rd.pos = 0 /\ rd.cap > 0 /\ rd.buf[1] > 1

\* C8: the indexed peeks return the bytes of the window counted from its
\* front and change neither pos nor cap; after a read or consume of k bytes
\* the new r[i] is the old r[i+k].
PeekExpected(w, kind, i, j) ==
    CASE kind = "at" -> <<w[i + 1]>>
      [] kind = "range" -> SubSeq(w, i + 1, j)
      [] kind = "to" -> SubSeq(w, 1, j)
      [] kind = "from" -> SubSeq(w, i + 1, Len(w))
      [] kind = "full" -> w

PeekInWindow(w, kind, i, j) ==
    CASE kind = "at" -> i < Len(w)
      [] kind = "range" -> i <= j /\ j <= Len(w)
      [] kind = "to" -> j <= Len(w)
      [] kind = "from" -> i <= Len(w)
      [] kind = "full" -> TRUE

C8_PeekRelativeToFront ==
    [][/\ last'.op = "peek"
            => /\ rd' = rd
               /\ PeekInWindow(Window(rd), last'.kind, last'.i, last'.j)
                    => /\ aborted' = "none"
                       /\ last'.val = PeekExpected(Window(rd), last'.kind, last'.i, last'.j)
       /\ last'.op = "read"
            => \A i \in 0..(len(rd') - 1) : index(rd', i).val = index(rd, i + last'.n).val
       /\ (last'.op = "consume" /\ last'.amt >= 0 /\ last'.amt <= len(rd))
            => \A i \in 0..(len(rd') - 1) : index(rd', i).val = index(rd, i + last'.amt).val]_vars

C8_Witness ==
    /\ last.op = "peek" /\ last.kind = "at" /\ last.i = 2
    /\ rd.pos > 0 /\ len(rd) > 2
    /\ last.val = <<Window(rd)[3]>>

\* ------------------------------------------------------- claims: codec

\* C9: a header with payload_len <= 2^24 - 1, recognised flags and a stream
\* id with bit 31 clear is written as 9 octets (24-bit big-endian length, type,
\* flags, 32-bit big-endian stream id) and decodes to the same header; the
\* stream id decoded from any 9 octets has its high bit clear.
C9_HeaderRoundTrip ==
    /\ last.op = "header"
        => /\ last.st = "ok"
           /\ Len(last.bytes) = 9
           /\ last.bytes[1] * 65536 + last.bytes[2] * 256 + last.bytes[3] = last.h.payload_len
           /\ last.bytes[4] = last.h.frame_type
           /\ last.bytes[5] = last.h.flags
           /\ last.bytes[6] * 256 + last.bytes[7] = last.h.stream_id.hi
           /\ last.bytes[8] * 256 + last.bytes[9] = last.h.stream_id.lo
           /\ \A i \in 1..9 : last.bytes[i] \in Byte
           /\ last.back.st = "ok"
           /\ last.back.header = last.h
           /\ last.back.rest = <<>>
    /\ last.op = "decode_header"
        => /\ last.res.st = "ok"
           /\ last.res.header.stream_id.hi < 32768

C9_Witness ==
    /\ last.op = "header"
    /\ last.h.payload_len = MAX_FRAME_SIZE
    /\ last.h.stream_id = [hi |-> 32767, lo |-> 65535]
    /\ last.h.flags = Flags_all
    /\ last.back.header = last.h

\* C10: read_frame_checked(max) fails with the FrameSize error of the size
\* check exactly when payload_len > max, whatever the type, flags and stream
\* id, and has then consumed the 9 header octets only; read_frame never
\* fails with it.
TooLong(res) ==
    /\ res.st = "err"
    /\ res.kind = "FrameSize"
    /\ res.msg = "payload length exceeds max frame size setting"

DeclaredLen(inp) == inp[1] * 65536 + inp[2] * 256 + inp[3]

C10_MaxSizeCheck ==
    /\ last.op = "read_frame_checked"
        => IF last.max_size >= 0 /\ DeclaredLen(last.inp) > last.max_size
           THEN /\ TooLong(last.res)
                /\ last.res.rest = SubSeq(last.inp, HEADER_SIZE + 1, Len(last.inp))
           ELSE ~TooLong(last.res)
    /\ last.op = "read_frame" => ~TooLong(last.res)

C10_Witness ==
    /\ last.op = "read_frame_checked"
    /\ TooLong(last.res)
    /\ DeclaredLen(last.inp) = last.max_size + 1
    /\ last.inp[4] = TYPE_SETTINGS
    /\ Len(last.res.rest) = 6

\* ------------------------------------------------- claims: partial read

\* C1: a frame whose encoding arrives as a prefix a and later a suffix b,
\* with a frame read attempted after each, is yielded exactly once and equal
\* to the frame that was encoded; no attempt aborts or yields an error, and
\* the first attempt, when it yields nothing, keeps every byte of a buffered.
C1_PartialReadSafety ==
    /\ aborted = "none"
    /\ last.errors = <<>>
    /\ \A i \in 1..Len(last.yielded) : last.yielded[i] = last.frame
    /\ Len(last.yielded) <= 1
    /\ (last.phase >= 2 /\ last.b # <<>>) => last.window1 = last.a
    /\ last.phase = 4 => last.yielded = <<last.frame>>

\* ---------------------------------------------------- claims: decoders

\* the checks the decoders make on the header alone, per frame type (the
\* Priority decoder's checks apply to a Headers header with the PRIORITY flag)
HeaderPassesValidation(t, fl, sid, plen) ==
    CASE t = TYPE_SETTINGS ->
            /\ StreamId_is_zero(StreamId_from(sid))
            /\ BitAnd(fl, FLAG_ACK) # 0 => plen = 0
            /\ plen % 6 = 0
      [] t = TYPE_HEADERS ->
            /\ ~StreamId_is_zero(StreamId_from(sid))
            /\ BitAnd(fl, FLAG_PRIORITY) # 0 => plen = PRIORITY_PAYLOAD_LENGTH
      [] t = TYPE_PRIORITY ->
            /\ ~StreamId_is_zero(StreamId_from(sid))
            /\ plen = PRIORITY_PAYLOAD_LENGTH
      [] OTHER -> TRUE

InternalError(res) == res.st = "err" /\ res.kind = "Internal"

\* C11: read_frame on fewer than 9 octets returns an Internal error; when the
\* header passes validation and fewer than payload_len payload octets follow
\* it returns an Internal error and no frame.
C11_ShortReadIsInternal ==
    /\ last.op = "read_short" => InternalError(last.res)
    /\ (/\ last.op = "decode"
        /\ HeaderPassesValidation(last.t, last.fl, last.sid, last.plen)
        /\ Len(last.payload) < last.plen)
            => InternalError(last.res)

KnownTypes == {TYPE_HEADERS, TYPE_PRIORITY, TYPE_SETTINGS}

\* the Unknown frame and the unread octets that a header with type t and
\* wire stream id sid, followed by payload, must decode to
IsUnknownOf(res, t, sid, plen, payload) ==
    /\ res.st = "ok"
    /\ res.frame.type = "Unknown"
    /\ res.frame.frame_type = t
    /\ res.frame.stream_id = [hi |-> sid.hi % 32768, lo |-> sid.lo]
    /\ res.frame.payload = SubSeq(payload, 1, plen)
    /\ res.rest = SubSeq(payload, plen + 1, Len(payload))

\* C12: a header whose type is none of 0x1, 0x2, 0x4, with any flags and
\* stream id, payload_len <= max and payload_len octets available, decodes to
\* Unknown with that type, that stream id and exactly payload_len payload
\* octets; types 0x1, 0x2, 0x4 go to the Headers, Priority, Settings decoders.
C12_UnknownAndDispatch ==
    /\ (last.op = "decode" /\ last.t \notin KnownTypes /\ Len(last.payload) >= last.plen)
            => IsUnknownOf(last.res, last.t, last.sid, last.plen, last.payload)
    /\ (/\ last.op = "read_frame_checked"
        /\ last.inp[4] \notin KnownTypes
        /\ ~UGreater(DeclaredLen(last.inp), last.max_size)
        /\ Len(last.inp) - HEADER_SIZE >= DeclaredLen(last.inp))
            => IsUnknownOf(last.res, last.inp[4],
                           [hi |-> last.inp[6] * 256 + last.inp[7],
                            lo |-> last.inp[8] * 256 + last.inp[9]],
                           DeclaredLen(last.inp),
                           SubSeq(last.inp, HEADER_SIZE + 1, Len(last.inp)))
    /\ (last.op = "decode" /\ last.t \in KnownTypes)
            => LET header == FrameHeader_from_reader(SubSeq(last.inp, 1, HEADER_SIZE)).header
               IN last.res =
                    CASE last.t = TYPE_HEADERS ->
                            HeadersFrame_from_reader(header, last.payload, last.oc)
                      [] last.t = TYPE_PRIORITY ->
                            PriorityFrame_from_reader(header, last.payload, last.oc)
                      [] last.t = TYPE_SETTINGS ->
                            SettingsFrame_from_reader(header, last.payload)

C12_Witness ==
    /\ last.op = "decode" /\ last.t = 255 /\ last.fl = 255
    /\ last.sid = [hi |-> 65535, lo |-> 65535]
    /\ last.plen = PRIORITY_PAYLOAD_LENGTH
    /\ last.res.st = "ok"
    /\ last.res.frame.payload = <<1, 2, 3, 4, 5>>
    /\ last.res.rest = <<6, 7>>

\* C13: write_frame of an Unknown frame (type outside the known set, any
\* flags, any stream id, any payload) followed by read_frame returns an
\* Unknown frame with the same type, flags, stream id and payload.
C13_UnknownRoundTrip ==
    (last.op = "round_trip" /\ last.f.type = "Unknown")
        => /\ last.w.st = "ok"
           /\ last.back.st = "ok"
           /\ last.back.frame.type = "Unknown"
           /\ last.back.frame.frame_type = last.f.frame_type
           /\ last.back.frame.flags = last.f.flags
           /\ last.back.frame.stream_id = last.f.stream_id
           /\ last.back.frame.payload = last.f.payload
           /\ last.back.rest = <<>>

C13_Witness ==
    /\ last.op = "round_trip" /\ last.f.type = "Unknown"
    /\ last.f.frame_type = 255 /\ last.f.flags = Flags_all
    /\ last.f.stream_id = [hi |-> 32767, lo |-> 65535]
    /\ Len(last.f.payload) = MaxPayloadBytes
    /\ last.back.st = "ok" /\ last.back.frame = last.f

\* C14: decoding a wire frame of unknown type and writing the decoded
\* Unknown frame again reproduces the type, the flags octet (unrecognised
\* bits included), the 31-bit stream id and the payload.
C14_UnknownReEmitVerbatim ==
    (last.op = "decode" /\ last.t \notin KnownTypes /\ Len(last.payload) >= last.plen)
        => /\ last.res.st = "ok"
           /\ last.out.st = "ok"
           /\ last.out.bytes =
                WireHeader(last.plen, last.t, last.fl,
                           [hi |-> last.sid.hi % 32768, lo |-> last.sid.lo])
                \o SubSeq(last.payload, 1, last.plen)

\* C15: for every Settings frame the decoder accepts (an ack without
\* settings, or a non-ack with a list of valid settings, the empty list
\* included) read_frame(write_frame(f)) is a Settings frame equal to f; the
\* encoding has type 0x4, stream id 0, flags octet 0x1 iff f is an ack, and
\* length 6 times the number of settings.
C15_SettingsRoundTrip ==
    (last.op = "round_trip" /\ last.f.type = "Settings")
        => /\ last.w.st = "ok"
           /\ Len(last.w.bytes) = HEADER_SIZE + 6 * Len(last.f.settings)
           /\ DeclaredLen(last.w.bytes) = 6 * Len(last.f.settings)
           /\ last.w.bytes[4] = 4
           /\ last.w.bytes[5] = (IF last.f.ack THEN 1 ELSE 0)
           /\ SubSeq(last.w.bytes, 6, 9) = <<0, 0, 0, 0>>
           /\ last.back.st = "ok"
           /\ last.back.frame = last.f
           /\ last.back.rest = <<>>

C15_Witness ==
    /\ last.op = "round_trip" /\ last.f.type = "Settings" /\ ~last.f.ack
    /\ Len(last.f.settings) = 2
    /\ last.f.settings[1].name = "EnablePush"
    /\ last.f.settings[2].name = "InitialWindowSize"
    /\ last.w.bytes = <<0, 0, 12, 4, 0, 0, 0, 0, 0,
                        0, 2, 0, 0, 0, 1, 0, 4, 127, 255, 255, 255>>
    /\ last.back.st = "ok" /\ last.back.frame = last.f

\* C16: for every HeadersFrame with non-zero stream id, any fragment, with or
\* without a priority and any end_headers and end_stream,
\* read_frame(write_frame(f)) is a Headers frame equal to f; the flags octet is
\* END_HEADERS iff end_headers, END_STREAM iff end_stream, PRIORITY iff a
\* priority is present and nothing else; the length is the fragment length
\* plus 5 if a priority is present.
C16_HeadersRoundTrip ==
    (last.op = "round_trip" /\ last.f.type = "Headers")
        => /\ last.w.st = "ok"
           /\ last.w.bytes[4] = 1
           /\ last.w.bytes[5] = (IF last.f.end_headers THEN 4 ELSE 0)
                                + (IF last.f.end_stream THEN 1 ELSE 0)
                                + (IF last.f.priority # <<>> THEN 32 ELSE 0)
           /\ DeclaredLen(last.w.bytes)
                = Len(last.f.fragment) + (IF last.f.priority # <<>> THEN 5 ELSE 0)
           /\ Len(last.w.bytes) = HEADER_SIZE + DeclaredLen(last.w.bytes)
           /\ last.back.st = "ok"
           /\ last.back.frame = last.f
           /\ last.back.rest = <<>>

\* a wire Priority frame on a non-zero stream with its whole 5-octet record
PriorityOnWire ==
    /\ last.op = "decode"
    /\ last.t = TYPE_PRIORITY
    /\ ~StreamId_is_zero(StreamId_from(last.sid))
    /\ last.plen = PRIORITY_PAYLOAD_LENGTH
    /\ Len(last.payload) = PRIORITY_PAYLOAD_LENGTH

C18_PriorityRecord ==
    /\ PriorityOnWire
        => /\ last.res.st = "ok"
           /\ last.res.frame.type = "Priority"
           /\ last.res.frame.exclusive = (last.payload[1] >= 128)
           /\ last.res.frame.dependency
                = [hi |-> (last.payload[1] % 128) * 256 + last.payload[2],
                   lo |-> last.payload[3] * 256 + last.payload[4]]
           /\ last.res.frame.weight = last.payload[5] + 1
    /\ (last.op = "round_trip" /\ last.f.type = "Priority")
        => /\ last.w.st = "ok"
           /\ last.w.bytes[HEADER_SIZE + 5] = last.f.weight - 1
           /\ (last.w.bytes[HEADER_SIZE + 1] >= 128) = last.f.exclusive
           /\ [hi |-> (last.w.bytes[HEADER_SIZE + 1] % 128) * 256 + last.w.bytes[HEADER_SIZE + 2],
               lo |-> last.w.bytes[HEADER_SIZE + 3] * 256 + last.w.bytes[HEADER_SIZE + 4]]
                = last.f.dependency

\* a wire Settings frame, whole or cut short
SettingsOnWire == last.op = "decode" /\ last.t = TYPE_SETTINGS

\* C19: decoding a Settings frame whose header stream id is not 0 returns an
\* error of kind Protocol, whatever its flags and payload length: the stream
\* id is tested before the ACK flag and the length.
C19_SettingsStreamIdFirst ==
    (SettingsOnWire /\ ~StreamId_is_zero(StreamId_from(last.sid)))
        => /\ last.res.st = "err"
           /\ last.res.kind = "Protocol"
           /\ last.res.msg = "The stream identifier for a settings frame must be zero"

C19_Witness ==
    /\ SettingsOnWire
    /\ ~StreamId_is_zero(StreamId_from(last.sid))
    /\ BitAnd(last.fl, FLAG_ACK) # 0
    /\ last.plen % 6 # 0
    /\ Len(last.payload) = last.plen
    /\ last.res.st = "err"
    /\ last.res.kind = "Protocol"

PairViolation(pair) ==
    CASE pair.id = 2 /\ pair.val \notin {U32(0), U32(1)} -> "Protocol"
      [] pair.id = 4 /\ pair.val.hi >= 32768 -> "FlowControl"
      [] pair.id = 5 /\ (pair.val.hi = 0 /\ pair.val.lo < 16384) -> "Protocol"
      [] pair.id = 5 /\ pair.val.hi > 255 -> "Protocol"
      [] OTHER -> ""

Violating(pairs) == {i \in 1..Len(pairs) : PairViolation(pairs[i]) # ""}

FirstViolating(pairs) == CHOOSE i \in Violating(pairs) : \A j \in Violating(pairs) : i <= j

\* C21: in a structurally valid Settings payload each pair is validated by
\* its id: ENABLE_PUSH outside {0, 1} gives Protocol, INITIAL_WINDOW_SIZE above
\* 2^31 - 1 gives FlowControl, MAX_FRAME_SIZE below 16384 or above 16777215
\* gives Protocol; ids 1, 3 and 6 accept every value and the boundary values
\* are accepted; the first violating pair in wire order determines the error
\* and no frame is returned.
C21_SettingsValues ==
    (last.op = "settings")
        => IF Violating(last.pairs) = {}
           THEN last.res.st = "ok" /\ last.res.frame.type = "Settings"
           ELSE /\ last.res.st = "err"
                /\ last.res.kind = PairViolation(last.pairs[FirstViolating(last.pairs)])

C21_Witness ==
    /\ last.op = "settings"
    /\ Len(last.pairs) = 2
    /\ last.pairs[1] = [id |-> 4, val |-> [hi |-> 32768, lo |-> 0]]
    /\ last.pairs[2] = [id |-> 2, val |-> U32(2)]
    /\ last.res.st = "err"
    /\ last.res.kind = "FlowControl"

\* the pairs with an id in 1..6, in their order
RECURSIVE Recognised(_)
Recognised(pairs) ==
    IF pairs = <<>> THEN <<>>
    ELSE IF Head(pairs).id \in 1..6 THEN <<Head(pairs)>> \o Recognised(Tail(pairs))
    ELSE Recognised(Tail(pairs))

\* the setting kinds by id
SettingNames ==
    <<"HeaderTableSize", "EnablePush", "MaxConcurrentStreams", "InitialWindowSize",
      "MaxFrameSize", "MaxHeaderListSize">>

\* C22: decoding a Settings payload yields the recognised (id, value) pairs
\* in wire order, repeated ids included; a pair whose id is outside 1..6 is
\* dropped without an error and without affecting the other pairs; encoding
\* writes the stored settings in stored order.
C22_SettingsOrder ==
    (last.op = "settings" /\ Violating(last.pairs) = {})
        => LET want == Recognised(last.pairs)
               got == last.res.frame.settings
           IN /\ last.res.st = "ok"
              /\ Len(got) = Len(want)
              /\ \A i \in 1..Len(want) :
                    /\ got[i].name = SettingNames[want[i].id]
                    /\ IF want[i].id = 2 THEN got[i].val = (want[i].val = U32(1))
                       ELSE got[i].val = want[i].val
              /\ last.out.st = "ok"
              /\ last.out.bytes
                    = WireHeader(6 * Len(want), TYPE_SETTINGS, 0, U32(0)) \o PairsOctets(want)

C22_Witness ==
    /\ last.op = "settings"
    /\ last.pairs = <<[id |-> 3, val |-> U32(2)], [id |-> 7, val |-> U32(2)],
                      [id |-> 3, val |-> U32(1)]>>
    /\ last.res.st = "ok"
    /\ Len(last.res.frame.settings) = 2
    /\ last.res.frame.settings[1] = [name |-> "MaxConcurrentStreams", val |-> U32(2)]
    /\ last.res.frame.settings[2] = [name |-> "MaxConcurrentStreams", val |-> U32(1)]
    /\ last.out.bytes = <<0, 0, 12, 4, 0, 0, 0, 0, 0,  0, 3, 0, 0, 0, 2,  0, 3, 0, 0, 0, 1>>

\* -------------------------------------------- claims: Priority and Headers

\* a wire frame of type t, whole or cut short
OnWire(t) == last.op = "decode" /\ last.t = t

\* C23: decoding a Priority frame returns an error of kind Protocol if the
\* header stream id is 0, and an error of kind FrameSize if the stream id is
\* non-zero and payload_len is not 5.
C23_PriorityHeaderChecks ==
    OnWire(TYPE_PRIORITY)
        => IF StreamId_is_zero(StreamId_from(last.sid))
           THEN last.res.st = "err" /\ last.res.kind = "Protocol"
           ELSE (last.plen # 5) => (last.res.st = "err" /\ last.res.kind = "FrameSize")

C23_Witness ==
    /\ OnWire(TYPE_PRIORITY)
    /\ last.sid = U32(0)
    /\ last.plen = 6
    /\ last.res.st = "err"
    /\ last.res.kind = "Protocol"

\* C24: decoding a Headers frame whose header stream id is 0 returns an error
\* of kind Protocol, whatever its flags and payload.
C24_HeadersStreamZero ==
    (OnWire(TYPE_HEADERS) /\ StreamId_is_zero(StreamId_from(last.sid)))
        => /\ last.res.st = "err"
           /\ last.res.kind = "Protocol"
           /\ last.res.msg = "Headers frame must be associated with a stream, stream id was zero"

C24_Witness ==
    /\ OnWire(TYPE_HEADERS)
    /\ last.sid = U32(0)
    /\ last.fl = FLAG_PADDED + FLAG_PRIORITY
    /\ last.plen = 7
    /\ Len(last.payload) = 7
    /\ last.res.st = "err"
    /\ last.res.kind = "Protocol"

\* the parts of a Headers payload as the layout gives them
HasBit(fl, bit) == (fl \div bit) % 2 = 1
PadOctets(fl, payload) == IF HasBit(fl, 8) THEN payload[1] + 1 ELSE 0
PrioOctets(fl) == IF HasBit(fl, 32) THEN 5 ELSE 0
Remaining(fl, payload) == Len(payload) - PadOctets(fl, payload) - PrioOctets(fl)

\* a whole wire Headers frame on a non-zero stream whose fragment length is >= 0
HeadersOnWire ==
    /\ OnWire(TYPE_HEADERS)
    /\ ~StreamId_is_zero(StreamId_from(last.sid))
    /\ Len(last.payload) = last.plen
    /\ (HasBit(last.fl, 8) => last.plen >= 1)
    /\ Remaining(last.fl, last.payload) >= 0

\* C25: decoding a Headers frame with non-zero stream id and a payload of
\* payload_len octets: with PADDED the first octet is pad_len and the last
\* pad_len octets are discarded; with PRIORITY the next 5 octets are the
\* priority sub-record; the fragment is exactly the remaining octets, for
\* every remaining length >= 0 and every combination of the two flags;
\* priority is present iff PRIORITY is set; end_headers and end_stream mirror
\* the flag bits 0x4 and 0x1.
C25_HeadersLayout ==
    HeadersOnWire
        => LET fl == last.fl
               first == (IF HasBit(fl, 8) THEN 1 ELSE 0) + PrioOctets(fl)
               rec == SubSeq(last.payload, first - 4, first)
           IN /\ last.res.st = "ok"
              /\ last.res.frame.type = "Headers"
              /\ last.res.frame.fragment
                    = SubSeq(last.payload, first + 1, first + Remaining(fl, last.payload))
              /\ (last.res.frame.priority # <<>>) = HasBit(fl, 32)
              /\ HasBit(fl, 32)
                    => /\ last.res.frame.priority[1].exclusive = (rec[1] >= 128)
                       /\ last.res.frame.priority[1].dependency
                            = [hi |-> (rec[1] % 128) * 256 + rec[2], lo |-> rec[3] * 256 + rec[4]]
                       /\ last.res.frame.priority[1].weight = rec[5] + 1
              /\ last.res.frame.end_headers = HasBit(fl, 4)
              /\ last.res.frame.end_stream = HasBit(fl, 1)
              /\ last.res.rest = <<>>

\* ---------------------------------------------------- claims: dispatcher

\* the octets of the payload a frame stands for that the frame holds verbatim
VerbatimTail(f) ==
    CASE f.type = "Unknown" -> f.payload
      [] f.type = "Headers" -> f.fragment
      [] OTHER -> <<>>

\* the payload octets a frame must produce
PayloadOctets(f) ==
    CASE f.type = "Unknown" -> Len(f.payload)
      [] f.type = "Headers" -> Len(f.fragment) + (IF f.priority # <<>> THEN 5 ELSE 0)
      [] f.type = "Priority" -> 5
      [] f.type = "Settings" -> 6 * Len(f.settings)

\* bytes is one frame: 9 header octets that announce the payload which follows
OneFrame(bytes, f) ==
    /\ Len(bytes) >= HEADER_SIZE
    /\ Len(bytes) = HEADER_SIZE + DeclaredLen(bytes)
    /\ DeclaredLen(bytes) = PayloadOctets(f)
    /\ SubSeq(bytes, Len(bytes) - Len(VerbatimTail(f)) + 1, Len(bytes)) = VerbatimTail(f)

Consumed(inp, res) == Len(inp) - Len(res.rest)

\* C27: whenever read_frame succeeds it has consumed exactly 9 + payload_len
\* octets, so the next read starts at the first octet after the frame (the
\* padding of a PADDED Headers frame is consumed too); in no outcome, success
\* or error, does it consume more than 9 + payload_len octets.
C27_ConsumesOneFrame ==
    /\ (last.op = "decode" /\ last.res.st = "ok")
        => /\ Consumed(last.inp, last.res) = HEADER_SIZE + last.plen
           /\ last.res.rest = SubSeq(last.payload, last.plen + 1, Len(last.payload))
    /\ (last.op = "decode" /\ last.res.st = "err")
        => Consumed(last.inp, last.res) <= HEADER_SIZE + last.plen
    /\ (last.op = "settings" /\ last.res.st \in {"ok", "err"})
        => Consumed(last.inp, last.res) <= Len(last.inp)
    /\ (last.op = "settings" /\ last.res.st = "ok")
        => last.res.rest = <<>>
    /\ (last.op = "read_short")
        => (last.res.st = "err" /\ Consumed(last.inp, last.res) <= HEADER_SIZE)

\* ------------------------------------------------------ claims: FrameIter

\* the bytes after the cursor
Remains(it) == SubSeq(it.buf, it.pos + 1, Len(it.buf))

\* the 24-bit length the bytes after the cursor start with (3 bytes or more)
PeekedLen(it) == Remains(it)[1] * 65536 + Remains(it)[2] * 256 + Remains(it)[3]

\* C28: next() returns None and leaves the cursor unchanged whenever the
\* bytes remaining after the cursor do not hold a complete frame: fewer than
\* 3 bytes remain, or the 24-bit length is <= max_payload and fewer than
\* 9 + payload_len bytes remain; for every remaining length from 0 up to
\* 8 + payload_len, without aborting.
C28_IncompleteIsNone ==
    (/\ last.op = "next"
     /\ \/ Len(Remains(last.before)) < 3
        \/ /\ PeekedLen(last.before) <= max_payload
           /\ Len(Remains(last.before)) < HEADER_SIZE + PeekedLen(last.before))
        => /\ aborted = "none"
           /\ last.ret = "none"
           /\ last.it = last.before

\* C29: whenever at least 3 bytes remain after the cursor and their 24-bit
\* big-endian length exceeds max_payload, next() yields Some(Err) of kind
\* FrameSize and does not advance the cursor, whether or not the rest of the
\* frame is present in the slice.
C29_TooLongIsFrameSize ==
    (/\ last.op = "next"
     /\ Len(Remains(last.before)) >= 3
     /\ PeekedLen(last.before) > max_payload)
        => /\ aborted = "none"
           /\ last.ret = "err"
           /\ last.items[Len(last.items)].kind = "FrameSize"
           /\ last.it = last.before

\* the 24-bit length a whole frame announces
FrameLen(bytes) == bytes[1] * 65536 + bytes[2] * 256 + bytes[3]

\* item is what decoding the frame bytes alone gives
IsDecodingOf(item, bytes) ==
    LET want == read_frame(bytes, FALSE)
    IN /\ item.st = want.st
       /\ (want.st = "ok") => (item.frame = want.frame)
       /\ (want.st = "err") => (item.kind = want.kind)

\* C30: for every slice that is the concatenation of k >= 0 complete frames
\* (each with payload_len <= max_payload) followed by an incomplete tail
\* (possibly empty), FrameIter yields exactly k items, the i-th being the
\* decoding of the i-th frame in wire order, and then None, with the cursor
\* at the first byte of the tail, whose bytes are left unread.
C30_YieldsFramesInOrder ==
    (/\ last.op \in {"start", "next"}
     /\ \A i \in 1..Len(last.frames) : FrameLen(last.frames[i]) <= max_payload)
        => /\ aborted = "none"
           /\ Len(last.items) <= Len(last.frames)
           /\ \A i \in 1..Len(last.items) :
                i <= Len(last.frames) => IsDecodingOf(last.items[i], last.frames[i])
           /\ last.it.pos = Len(Concat(SubSeq(last.frames, 1, Min(Len(last.items), Len(last.frames)))))
           /\ last.calls = Len(last.items) + (IF last.ended THEN 1 ELSE 0)
           /\ last.ended => /\ Len(last.items) = Len(last.frames)
                            /\ Remains(last.it) = last.tail

\* C31: for every byte slice and every max_payload, repeatedly calling
\* next() returns None after finitely many calls, also when a frame's
\* announced length exceeds max_payload.
C31_IterationEnds == <>(last.ended)

\* ------------------------------------------------- claims: fill_buf loop

\* the free space fill_buf offers to its first read
Room(r) == Len(r.buf) - r.cap

\* C32: within one fill_buf call a further read is requested from the source
\* if and only if the previous read returned exactly the free space that was
\* offered; after the first read that returns fewer bytes (a short read, 0
\* bytes, or would-block) no further read is issued in that call.
C32_ReadAgainIffFull ==
    [][(last'.op = "fill_buf" /\ last'.mode \in {"block", "eof"})
        => IF Len(src.avail) >= Room(rd)
           THEN last'.reads >= 2
           ELSE last'.reads = 1]_vars

\* the window fill_buf has to move when it grows the store: what was readable
\* and the bytes the first read put behind it
GrownLen(r) == Len(r.buf) - r.pos

\* C33: when fill_buf finds cap == capacity, the backing store is replaced
\* by one of capacity readable_length + min(readable_length, 8192) and at
\* least 64, the readable window is copied to offset 0 of it (pos becomes 0,
\* cap the old readable length), the bytes of the window are unchanged, and
\* there is free space for the next read.
C33_GrowthKeepsWindow ==
    [][(/\ last'.op = "fill_buf"
        /\ last'.mode \in {"block", "eof"}
        /\ Len(src.avail) >= Room(rd))
        => /\ last'.status = "ok"
           /\ Len(rd'.buf) = GrownLen(rd) + Min(GrownLen(rd), DEFAULT_BUF_SIZE)
           /\ Len(rd'.buf) >= INITIAL_BUF_SIZE
           /\ rd'.pos = 0
           /\ rd'.cap = Len(Window(rd)) + Len(src.avail)
           /\ Window(rd') = Window(rd) \o src.avail
           /\ rd'.cap < Len(rd'.buf)]_vars

\* ------------------------------------------------- claims: the byte stream
\* how many bytes of the source's sequence are behind the front of the window
Passed == Len(Wire) - Len(Window(rd)) - Len(src.avail) - Len(src.rest)

\* the window is the stretch of the source's sequence that starts at k
WindowAt(w, k) == \A i \in 1..Len(w) : w[i] = Wire[k + i]

\* the bytes an operation takes off the front of a window of n bytes
Taken(op, n) ==
    CASE op.op = "read" -> op.n
      [] op.op = "consume" -> IF op.amt = USIZE_MAX \/ op.amt > n THEN n ELSE op.amt
      [] OTHER -> 0

\* C34: across any interleaving of fill_buf, read and consume, the bytes
\* handed out by read, in call order, together with the bytes skipped by
\* consume, form exactly a prefix of the source's byte sequence, and the
\* window is always the next not-yet-consumed bytes: no byte is lost,
\* duplicated or reordered.
C34_StreamIntegrity ==
    [][aborted' = "none"
        => /\ Passed' = Passed + Taken(last', Len(Window(rd)))
           /\ WindowAt(Window(rd'), Passed')
           /\ last'.op = "read"
                => \A i \in 1..last'.n : last'.dst[i] = Wire[Passed + i]]_vars

\* a complete frame of acceptable length follows the cursor
WholeFrameAt(it) ==
    /\ Len(Remains(it)) >= 3
    /\ PeekedLen(it) <= it.max_payload
    /\ Len(Remains(it)) >= HEADER_SIZE + PeekedLen(it)

\* C35: after every next() the cursor is 0 or equals the sum of
\* 9 + payload_len over the complete frames passed so far; it advances by
\* 9 + payload_len also when the yielded item is a decoding error of a
\* complete frame (e.g. Protocol), so the frames after it are still yielded.
C35_CursorOnFrameBoundary ==
    (last.op = "next" /\ aborted = "none")
        => /\ \E k \in 0..Min(Len(last.items), Len(last.frames)) :
                last.it.pos = Len(Concat(SubSeq(last.frames, 1, k)))
           /\ IF WholeFrameAt(last.before)
              THEN /\ last.ret \in {"ok", "err"}
                   /\ last.it.pos = last.before.pos + HEADER_SIZE + PeekedLen(last.before)
              ELSE last.it.pos = last.before.pos

\* a frame that decodes to a Protocol error was passed and the frame after
\* it was yielded
C35_Witness ==
    /\ last.op = "next"
    /\ aborted = "none"
    /\ Len(last.items) = 2
    /\ last.items[1].st = "err"
    /\ last.items[1].kind = "Protocol"
    /\ last.items[2].st = "ok"
    /\ last.it.pos = Len(Concat(last.frames))

\* ------------------------------------------- claims: frames() only peeks
IsPrefix(a, b) == Len(a) <= Len(b) /\ \A i \in 1..Len(a) : a[i] = b[i]

\* two items of an iteration are the same frame or the same kind of error
SameItem(a, b) ==
    /\ a.st = b.st
    /\ (a.st = "ok") => (a.frame = b.frame)
    /\ (a.st = "err") => (a.kind = b.kind)

\* C36: FrameReader.frames() and the iteration over its FrameIter never
\* consume from the AsyncBufReader: pos is unchanged and no buffered byte is
\* dropped (only cap may grow, through fill_buf), so unless the caller
\* consumes, a later frames() call yields the same frames again from the
\* start of the window, followed by the newly completed ones.
C36_FramesOnlyPeeks ==
    last.op = "frames"
        => /\ rd.pos = last.before.pos
           /\ rd.cap >= last.before.cap
           /\ IsPrefix(Window(last.before), Window(rd))
           /\ (last.status = "ok" /\ aborted = "none")
                => /\ Len(last.seen) <= Len(last.items)
                   /\ \A i \in 1..Len(last.seen) : SameItem(last.items[i], last.seen[i])

\* a second frames() call yielded the frame of the first call again and
\* then a frame that was completed in between
C36_Witness ==
    /\ last.op = "frames"
    /\ last.status = "ok"
    /\ aborted = "none"
    /\ last.end = "none"
    /\ Len(last.seen) = 1
    /\ last.seen[1].st = "ok"
    /\ Len(last.items) = 2
    /\ last.items[2].st = "ok"

\* ----------------------------------------- claims: peeks outside the window
\* the peek asks for a byte the window does not hold
PeekBeyondWindow(w, kind, i, j) ==
    \/ kind = "at" /\ i >= Len(w)
    \/ kind \in {"range", "to"} /\ j > Len(w)

\* C37: an indexed peek only exposes bytes of the readable window: r[i]
\* with i >= len(), and r[i..j] or r[..j] with j > len(), fail instead of
\* returning bytes of the backing store outside [pos, cap).
C37_PeekStaysInWindow ==
    (/\ last.op = "peek"
     /\ PeekBeyondWindow(Window(rd), last.kind, last.i, last.j))
        => aborted # "none"

\* --------------------------------------- claims: Headers length arithmetic
\* the pad length octet and the padding do not fit in the declared payload
PaddingOverruns ==
    /\ HasBit(last.fl, 8)
    /\ \/ last.plen = 0
       \/ Len(last.payload) >= 1 /\ last.payload[1] + 1 > last.plen

\* fewer than 5 payload octets are left for the priority sub-record
PriorityOverruns ==
    /\ HasBit(last.fl, 32)
    /\ \/ last.plen < PRIORITY_PAYLOAD_LENGTH
       \/ /\ HasBit(last.fl, 8)
          /\ Len(last.payload) >= 1
          /\ last.plen - (last.payload[1] + 1) < PRIORITY_PAYLOAD_LENGTH

\* C38: decoding a Headers frame with PADDED whose pad_len + 1 exceeds
\* payload_len (including payload_len = 0), or with PRIORITY and fewer than
\* 5 payload octets left for the priority sub-record, returns an error: the
\* remaining-length subtraction never underflows, no fragment of wrapped
\* size is allocated, and no octet beyond payload_len is read.
C38_HeadersLengthsChecked ==
    (/\ OnWire(TYPE_HEADERS)
     /\ ~StreamId_is_zero(StreamId_from(last.sid))
     /\ PaddingOverruns \/ PriorityOverruns)
        => /\ last.res.st = "err"
           /\ Consumed(last.inp, last.res) <= HEADER_SIZE + last.plen

\* ------------------------------------------ claims: fill_buf comes back
\* C39: fill_buf terminates whenever the source, after finitely many reads,
\* returns fewer bytes than the free space offered, and returns Ok with the
\* window accumulated up to that read.
C39_FillBufReturns ==
    [][(last'.op = "fill_buf" /\ last'.mode \in {"block", "eof"})
        => /\ aborted' = "none"
           /\ last'.status = "ok"
           /\ last'.reads >= 1
           /\ last'.ret = Window(rd) \o src.avail
           /\ src'.avail = <<>>]_vars

====
